---- MODULE Spec2Model ----
(***************************************************************************)
(* The phone service of claude-telegram-relay (src/src/phone.ts, the       *)
(* polling version, lines 298-641) with its markup builders                *)
(* (src/src/twiml.ts).                                                     *)
(*                                                                         *)
(* Strings are sequences of tokens: a token is a piece of text that no     *)
(* operation of the program splits, and every character an operation       *)
(* looks at (the XML special characters, the "GOODBYE:" tag) is a token    *)
(* of its own.  Utterances are sequences of single characters, because     *)
(* the end-of-call test looks at characters.                               *)
(*                                                                         *)
(* One action is one handler run to completion: JavaScript runs it without *)
(* interleaving.  A run of processRecordingAsync is two actions: its       *)
(* launch by handleRecordingResponse, and everything from its first await  *)
(* to its last statement.  Between the two it reads and writes nothing     *)
(* the handlers share, so every interleaving of its awaits with the        *)
(* handlers is one of these; what its collaborators return is drawn when   *)
(* it ends.                                                                *)
(***************************************************************************)
EXTENDS Integers, Sequences, FiniteSets, TLC

\* ------------------------------------------------------------------ bounds

\* Pipeline runs launched in one behaviour.
MaxRuns == 2
\* The clock stops here (minutes).
MaxNow == 60
\* One clock step (minutes).
ClockStep == 30

\* --------------------------------------------------------- program constants

\* 30 * 60 * 1000 ms, in minutes.
SESSION_TTL == 30

\* ------------------------------------------------------------------ inputs

\* The call ids of the provider, and those that send events in a behaviour.
CallSids == {"CA1", "CA2"}
Sids == {"CA1"}
Callers == {"+15550001", "+15550002"}
RecordingUrls == {<<>>, <<"https://api.twilio.example/Recordings/RE1">>}
RecordingSids == {<<"RE1">>}
CallStatuses == {"completed", "failed", "no-answer", "in-progress"}
OutboundMessages ==
  {<<>>, <<"Time for your walk.">>, <<"Tea", " ", "&", " ", "cake?">>}

\* What transcribe() returns: "" or an utterance, character by character.
Utterances ==
  { <<>>,
    <<"o","k","a","y"," ","b","y","e">>,
    <<"h","i">> }

\* What callClaude() returns, and what processMemoryIntents() returns for it.
Exchanges ==
  { [reply |-> <<"It is sunny today.">>, response |-> <<"It is sunny today.">>],
    [reply |-> <<"Noted.", "[REMEMBER: likes tea]">>, response |-> <<"Noted.">>],
    [reply |-> <<"GOODBYE:", "for now.">>,
     response |-> <<"GOODBYE:", "for now.">>] }

\* ------------------------------------------------------------------ state

VARIABLES
  USER_PHONE_NUMBER,   \* configuration, fixed at start
  callSessions,        \* Map<string, CallSession>
  pendingResponses,    \* Map<string, string | null>
  now,                 \* Date.now(), in minutes
  runs,                \* the processRecordingAsync runs, by launch order
  last,                \* the step taken last: its route, markup and calls
  delivered,           \* history: the poll responses that carried the
                       \* string written last into each slot
  TWILIO_PHONE_NUMBER, \* configuration, fixed at start
  argument,            \* the argument of a function applied on its own
  result,              \* and what the function returned or threw
  remindersFile,       \* the content of REMINDERS_FILE
  clock,               \* new Date(), as the reminder daemon reads it
  checks,              \* the runs of checkReminders, by start order
  sent,                \* history: the successful sends of each reminder
  tools,               \* the tool calls of the reminder MCP server, by start
                       \* order
  stateFile,           \* the content of STATE_FILE
  hours,               \* Date.now(), in hours, as the check-in script reads it
  checkin,             \* the run of smart-checkin.ts in progress
  checkins,            \* history: when each check-in was sent
  toggle,              \* the call of setEnabled in progress in the relay
  lockFile,            \* the content of LOCK_FILE
  instances            \* the relay processes starting up, by pid

\* The reminder daemon (the second program of src/src/relay.ts).
daemon == <<remindersFile, clock, checks, sent, tools>>

\* The smart check-in script (src/examples/smart-checkin.ts).
smartCheckin == <<stateFile, hours, checkin, checkins, toggle>>

\* The start-up of the relay (src/src/relay.ts).
relay == <<lockFile, instances>>

\* The programs that run beside the phone service.
components == <<daemon, smartCheckin, relay>>

\* The variables no handler, run or timer of the phone service touches.
others == <<TWILIO_PHONE_NUMBER, argument, result, components>>

vars == <<USER_PHONE_NUMBER, callSessions, pendingResponses, now, runs, last,
          delivered, others>>

RunIds == 1..MaxRuns

\* What a function applied on its own did: nothing yet, a return value, or
\* a thrown Error with its message.
NoResult == [kind |-> "none", value |-> ""]
Returned(value) == [kind |-> "returns", value |-> value]
Thrown(message) == [kind |-> "throws", value |-> message]

\* string | null
Null == [kind |-> "null", text |-> <<>>]
Str(s) == [kind |-> "string", text |-> s]

\* --------------------------------------------------------------- twiml.ts

escapeXmlToken(t) ==
  CASE t = "&" -> "&amp;"
    [] t = "<" -> "&lt;"
    [] t = ">" -> "&gt;"
    [] t = "\"" -> "&quot;"
    [] t = "'" -> "&apos;"
    [] OTHER -> t

escapeXml(text) == [i \in 1..Len(text) |-> escapeXmlToken(text[i])]

Say(body) == [el |-> "Say", body |-> body, attr |-> <<"Polly.Emma-Generative">>]

sayAndRecord(text, actionUrl) ==
  << Say(escapeXml(text)),
     [el |-> "Record", body |-> <<>>, attr |-> escapeXml(actionUrl)],
     Say(<<"I didn", "'", "t hear anything. Talk to you later!">>) >>

\* A greeting that speaks the prompt and does not record.
greetingWithoutRecord(actionUrl) ==
  << Say(escapeXml(<<"Hey! What can I help with?">>)) >>

greeting(actionUrl) == sayAndRecord(<<"Hey! What can I help with?">>, actionUrl)

sayAndHangup(text) == << Say(escapeXml(text)) >>

\* --------------------------------------------------------------- phone.ts

BASE_URL == "http://35.178.39.179:3100"

RespondUrl == <<BASE_URL, "/voice/respond">>

encodeURIComponentToken(t) ==
  CASE t = "&" -> "%26"
    [] t = " " -> "%20"
    [] t = "?" -> "%3F"
    [] t = "=" -> "%3D"
    [] t = "+" -> "%2B"
    [] OTHER -> t

encodeURIComponent(s) == [i \in 1..Len(s) |-> encodeURIComponentToken(s[i])]

PollUrl(callSid) ==
  <<BASE_URL, "/voice/poll?callSid=">> \o encodeURIComponent(<<callSid>>)

PauseRedirect(length, callSid) ==
  << [el |-> "Pause", body |-> <<>>, attr |-> <<length>>],
     [el |-> "Redirect", body |-> PollUrl(callSid), attr |-> <<"POST">>] >>

\* A thinking response that speaks before it pauses.
thinkingSpoken(callSid) ==
  << Say(<<"Let me think.">>) >> \o PauseRedirect("1", callSid)

thinkingAndPoll(callSid) == PauseRedirect("1", callSid)

PollWait(callSid) == PauseRedirect("2", callSid)

\* The body of "new Response("OK")".
Ack == << [el |-> "text", body |-> <<"OK">>, attr |-> <<>>] >>

MsgPrivate == <<"Sorry, this number is private.">>
MsgNoCatch == <<"I didn", "'", "t catch that. Talk to you later!">>
MsgHiccup == <<"Sorry, I had a hiccup. What were you saying?">>
MsgNoHear ==
  <<"Sorry, I couldn", "'", "t hear that properly. Could you say that again?">>
MsgNoUnderstand ==
  <<"Sorry, I couldn", "'", "t understand that. Could you repeat?">>
GoodbyeTag == "GOODBYE:"
MsgFarewell == <<GoodbyeTag, "Alright, talk to you later! Bye!">>
MsgCheckingIn == <<"Hey, just checking in!">>

\* String.prototype.startsWith, for a prefix that is one token.
startsWith(s, tag) == Len(s) > 0 /\ s[1] = tag

\* String.prototype.replace(tag, ""): the first occurrence goes.
RECURSIVE replaceFirst(_, _)
replaceFirst(s, tag) ==
  IF s = <<>> THEN <<>>
  ELSE IF Head(s) = tag THEN Tail(s)
  ELSE <<Head(s)>> \o replaceFirst(Tail(s), tag)

\* ------------------------------------------- the end-of-call test (regex)

UpperCase == <<"A","B","C","D","E","F","G","H","I","J","K","L","M",
               "N","O","P","Q","R","S","T","U","V","W","X","Y","Z">>
LowerCase == <<"a","b","c","d","e","f","g","h","i","j","k","l","m",
               "n","o","p","q","r","s","t","u","v","w","x","y","z">>
Digits == {"0","1","2","3","4","5","6","7","8","9"}

toLower(ch) ==
  IF \E i \in 1..26 : UpperCase[i] = ch
  THEN LowerCase[CHOOSE i \in 1..26 : UpperCase[i] = ch]
  ELSE ch

\* \w
isWordChar(ch) ==
  \/ \E i \in 1..26 : UpperCase[i] = ch \/ LowerCase[i] = ch
  \/ ch \in Digits
  \/ ch = "_"

GoodbyePhrases ==
  { <<"g","o","o","d","b","y","e">>,
    <<"b","y","e">>,
    <<"h","a","n","g"," ","u","p">>,
    <<"e","n","d"," ","c","a","l","l">>,
    <<"t","h","a","t","'","s"," ","a","l","l">> }

\* A test that looks for the phrase anywhere, inside a longer word too.
wordBoundaryIgnored(s, i) == TRUE

\* \b at the gap before position i (1..Len+1) of s.
wordBoundary(s, i) ==
  LET before == i > 1 /\ isWordChar(s[i - 1])
      after == i <= Len(s) /\ isWordChar(s[i])
  IN  before # after

\* /\b(goodbye|bye|hang up|end call|that's all)\b/i.test(s)
isGoodbye(s) ==
  \E p \in GoodbyePhrases :
    \E i \in 1..Len(s) :
      /\ i + Len(p) - 1 <= Len(s)
      /\ \A k \in 1..Len(p) : toLower(s[i + k - 1]) = p[k]
      /\ wordBoundary(s, i)
      /\ wordBoundary(s, i + Len(p))

\* --------------------------------------------------------------- the maps

\* Map.prototype.set
MapSet(m, k, v) == [x \in (DOMAIN m) \cup {k} |-> IF x = k THEN v ELSE m[x]]

\* Map.prototype.delete
MapDelete(m, k) == [x \in (DOMAIN m) \ {k} |-> m[x]]

EmptyMap == [x \in {} |-> 0]

\* ------------------------------------------------------------ the handlers

\* A call made to a collaborator: saveMessage(role, text), fetch, ...
Call(fn, role, text) == [fn |-> fn, role |-> role, text |-> text]

\* A step taken: the route (or "pipeline", "sweep", "tick"), its call id, the
\* markup of the HTTP response and the calls made to collaborators.
Event(op, callSid, markup, calls) ==
  [op |-> op, callSid |-> callSid, markup |-> markup, calls |-> calls]

\* A session that counts its creation as a turn.
NewSessionCounted == [turns |-> 1, lastActivity |-> now]

NewSession == [turns |-> 0, lastActivity |-> now]

\* The comparison the other way round: the configured address is the one
\* turned away.
UnauthorizedInverted(from) == USER_PHONE_NUMBER # "" /\ from = USER_PHONE_NUMBER

\* if (USER_PHONE_NUMBER && from !== USER_PHONE_NUMBER)
Unauthorized(from) == USER_PHONE_NUMBER # "" /\ from # USER_PHONE_NUMBER

handleInbound(callSid, from) ==
  /\ IF Unauthorized(from)
     THEN /\ last' = Event("inbound", callSid, sayAndHangup(MsgPrivate), <<>>)
          /\ UNCHANGED callSessions
     ELSE /\ callSessions' = MapSet(callSessions, callSid, NewSession)
          /\ last' = Event("inbound", callSid, greeting(RespondUrl),
                       << Call("saveMessage", "system",
                               <<"Phone call started from ", from>>) >>)
  /\ UNCHANGED <<others, USER_PHONE_NUMBER, pendingResponses, now, runs, delivered>>

\* A run of processRecordingAsync: not yet called, awaiting, or returned.
IdleRun == [pc |-> "idle", callSid |-> "", recordingSid |-> <<>>]
DoneRun == [pc |-> "done", callSid |-> "", recordingSid |-> <<>>]

Launched(r) == runs[r].pc # "idle"
InFlight(r) == runs[r].pc = "running"

\* The run the next call of processRecordingAsync becomes.
FreeRun == CHOOSE r \in RunIds : ~Launched(r) /\ \A q \in 1..(r - 1) : Launched(q)

\* session.turns++; session.lastActivity = Date.now()
TouchSession(callSid) ==
  IF callSid \in DOMAIN callSessions
  THEN [callSessions EXCEPT ![callSid] =
          [turns |-> @.turns + 1, lastActivity |-> now]]
  ELSE callSessions

\* A handler that launches the run and leaves the slot as it was.
SlotLeftAsItWas(callSid) == pendingResponses

\* pendingResponses.set(callSid, null)
MarkProcessing(callSid) == MapSet(pendingResponses, callSid, Null)

\* An event without a recording URL is treated like any other.
NoRecordingUnchecked(recordingUrl) == FALSE

\* if (!recordingUrl)
NoRecording(recordingUrl) == recordingUrl = <<>>

handleRecordingResponse(callSid, recordingUrl, recordingSid) ==
  IF NoRecording(recordingUrl)
  THEN /\ last' = Event("respond", callSid, sayAndHangup(MsgNoCatch), <<>>)
       /\ UNCHANGED <<others, USER_PHONE_NUMBER, callSessions, pendingResponses, now,
                      runs, delivered>>
  ELSE /\ \E r \in RunIds : ~Launched(r)
       /\ callSessions' = TouchSession(callSid)
       /\ pendingResponses' = MarkProcessing(callSid)
       /\ runs' = [runs EXCEPT ![FreeRun] =
                     [pc |-> "running", callSid |-> callSid,
                      recordingSid |-> recordingSid]]
       /\ last' = Event("respond", callSid, thinkingAndPoll(callSid), <<>>)
       /\ UNCHANGED <<others, USER_PHONE_NUMBER, now, delivered>>

\* A poll that never finds the result.
NeverReady(callSid) == FALSE

\* A poll that takes an entry for a result, null included.
ReadyWhenPresent(callSid) == callSid \in DOMAIN pendingResponses

\* response !== null && response !== undefined
Ready(callSid) ==
  /\ callSid \in DOMAIN pendingResponses
  /\ pendingResponses[callSid] # Null

\* A poll that reads the result and leaves it in the map.
ConsumeKeepsEntry(callSid) == pendingResponses

\* pendingResponses.delete(callSid)
Consume(callSid) == MapDelete(pendingResponses, callSid)

\* A delivery that never looks for the tag.
DeliverAlwaysRecords(response) == sayAndRecord(response, RespondUrl)

\* A delivery that ends the call whatever the result is.
DeliverAlwaysHangsUp(response) == sayAndHangup(response)

\* The markup that delivers a result.
Deliver(response) ==
  IF startsWith(response, GoodbyeTag)
  THEN sayAndHangup(replaceFirst(response, GoodbyeTag))
  ELSE sayAndRecord(response, RespondUrl)

handlePoll(callSid) ==
  IF ~Ready(callSid)
  THEN /\ last' = Event("poll", callSid, PollWait(callSid), <<>>)
       /\ UNCHANGED <<others, USER_PHONE_NUMBER, callSessions, pendingResponses, now,
                      runs, delivered>>
  ELSE /\ pendingResponses' = Consume(callSid)
       /\ last' = Event("poll", callSid,
                        Deliver(pendingResponses[callSid].text), <<>>)
       /\ delivered' = [delivered EXCEPT ![callSid] = @ + 1]
       /\ UNCHANGED <<others, USER_PHONE_NUMBER, callSessions, now, runs>>

handleOutbound(callSid, query) ==
  LET message == IF query = <<>> THEN MsgCheckingIn ELSE query
  IN  /\ callSessions' = MapSet(callSessions, callSid, NewSession)
      /\ last' = Event("outbound", callSid, sayAndRecord(message, RespondUrl),
                   << Call("saveMessage", "assistant",
                           <<"[Outbound call]: ">> \o message) >>)
      /\ UNCHANGED <<others, USER_PHONE_NUMBER, pendingResponses, now, runs, delivered>>

\* Every status ends the call.
TerminalWhateverStatus(status) == TRUE

\* status === "completed" || status === "failed" || status === "no-answer"
Terminal(status) == status \in {"completed", "failed", "no-answer"}

\* What handleStatus leaves of the two maps.
StatusSessions(callSid, status) ==
  IF Terminal(status) THEN MapDelete(callSessions, callSid) ELSE callSessions

StatusPending(callSid, status) == pendingResponses

handleStatus(callSid, status) ==
  /\ callSessions' = StatusSessions(callSid, status)
  /\ pendingResponses' = StatusPending(callSid, status)
  /\ last' = Event("status", callSid, Ack, <<>>)
  /\ UNCHANGED <<others, USER_PHONE_NUMBER, now, runs, delivered>>

\* ----------------------------------------------- processRecordingAsync

\* What the collaborators of one run do: fetch ("ok", "not ok", "throws"),
\* transcribe (returns transcription, or throws), the context lookups, callClaude
\* (returns exchange.reply; it catches its own errors) and processMemoryIntents
\* (returns exchange.response, or throws).
AllOutcomes ==
  [fetch : {"ok", "not ok", "throws"},
   transcribe : {"ok", "throws"},
   transcription : Utterances,
   context : {"ok", "throws"},
   exchange : Exchanges,
   memory : {"ok", "throws"}]

\* A collaborator the run never reaches does nothing: one outcome stands for
\* all that differ only in what such a collaborator would have done.
Unreached == [fetch |-> "ok", transcribe |-> "ok", transcription |-> <<>>,
              context |-> "ok", exchange |-> CHOOSE e \in Exchanges : TRUE,
              memory |-> "ok"]

Outcomes ==
  { [Unreached EXCEPT !.fetch = f] : f \in {"not ok", "throws"} }
  \cup { [Unreached EXCEPT !.transcribe = "throws"] }
  \cup { [Unreached EXCEPT !.transcription = t] : t \in Utterances }
  \cup { [Unreached EXCEPT !.transcription = t, !.context = "throws"] :
           t \in {u \in Utterances : u # <<>> /\ ~isGoodbye(u)} }
  \cup { [Unreached EXCEPT !.transcription = t, !.exchange = e, !.memory = m] :
           t \in {u \in Utterances : u # <<>> /\ ~isGoodbye(u)},
           e \in Exchanges, m \in {"ok", "throws"} }

\* cleanupRecording: the removal it asks of the provider.
cleanupRecording(recordingSid) ==
  IF recordingSid = <<>> THEN <<>>
  ELSE << Call("recordings.remove", "", recordingSid) >>

\* A run that does not look at the status of the fetch.
FetchStatusIgnored(io) == FALSE

\* if (!audioResponse.ok)
FetchFailed(io) == io.fetch = "not ok"

\* A run that does not look at the transcription before going on.
NoTranscriptionUnchecked(transcription) == FALSE

\* if (!transcription)
NoTranscription(transcription) == transcription = <<>>

\* The function returns after pendingResponses.set(callSid, text).
Returns(calls, text) ==
  [calls |-> calls \o << Call("pendingResponses.set", "", text) >>,
   rejected |-> FALSE, text |-> text]

\* The function's promise rejects.
Rejects(calls) == [calls |-> calls, rejected |-> TRUE, text |-> <<>>]

\* A run that publishes the reply and leaves the turn and the recording.
publishUnsaved(calls, response, recordingSid) == Returns(calls, response)

\* await saveMessage("assistant", response, "phone");
\* cleanupRecording(recordingSid); pendingResponses.set(callSid, response)
saveAndPublish(calls, response, recordingSid) ==
  Returns(calls
          \o << Call("saveMessage", "assistant", response) >>
          \o cleanupRecording(recordingSid),
          response)

\* One run, from the first await to its end, with the collaborators doing io:
\* the calls it makes, in order, and how it ends.
processRecordingAsync(recordingSid, io) ==
  LET transcription == io.transcription
      response == io.exchange.response
      fetched == << Call("fetch", "", <<io.fetch>>) >>
      transcribed == fetched \o << Call("transcribe", "", transcription) >>
      userSaved == transcribed \o
        << Call("saveMessage", "user", <<"[Phone]: ">> \o transcription) >>
      context == userSaved \o << Call("getContext", "", <<io.context>>) >>
      asked == context \o << Call("callClaude", "", io.exchange.reply) >>
      filtered == asked \o << Call("processMemoryIntents", "", response) >>
  IN  IF io.fetch = "throws" THEN Rejects(fetched)
      ELSE IF FetchFailed(io) THEN Returns(fetched, MsgNoHear)
      ELSE IF io.transcribe = "throws"
        THEN Rejects(fetched \o << Call("transcribe", "", <<"throws">>) >>)
      ELSE IF NoTranscription(transcription)
        THEN Returns(transcribed, MsgNoUnderstand)
      ELSE IF isGoodbye(transcription)
        THEN Returns(userSaved
                     \o << Call("saveMessage", "assistant",
                                replaceFirst(MsgFarewell, GoodbyeTag)) >>
                     \o cleanupRecording(recordingSid),
                     MsgFarewell)
      ELSE IF io.context = "throws" THEN Rejects(context)
      ELSE IF io.memory = "throws"
        THEN Rejects(asked \o << Call("processMemoryIntents", "", <<"throws">>) >>)
      ELSE saveAndPublish(filtered, response, recordingSid)

\* processRecordingAsync for every recording id and outcome, computed once.
Executions ==
  [recordingSid \in RecordingSids, io \in Outcomes |->
     processRecordingAsync(recordingSid, io)]

\* One result for all calls: the write lands in every slot there is.
PublishToEveryCall(callSid, text) ==
  [sid \in (DOMAIN pendingResponses) \cup {callSid} |-> Str(text)]

\* pendingResponses.set(callSid, text)
Publish(callSid, text) == MapSet(pendingResponses, callSid, Str(text))

\* A launch without the .catch: the rejection writes nothing.
CatchWritesNothing(callSid) == pendingResponses

\* The .catch of handleRecordingResponse.
CatchPublish(callSid) == Publish(callSid, MsgHiccup)

\* A run that ends the session of its call.
PipelineDropsSession(callSid) == MapDelete(callSessions, callSid)

\* What a run leaves of callSessions: no statement of processRecordingAsync
\* or of the .catch names the map.
PipelineSessions(callSid) == callSessions

\* Run r goes from its first await to its end.
Pipeline(r) ==
  /\ InFlight(r)
  /\ \E io \in Outcomes :
       LET callSid == runs[r].callSid
           run == Executions[runs[r].recordingSid, io]
       IN  /\ pendingResponses' =
                IF run.rejected THEN CatchPublish(callSid)
                ELSE Publish(callSid, run.text)
           /\ last' = Event("pipeline", callSid, <<>>, run.calls)
           /\ delivered' = [delivered EXCEPT ![callSid] = 0]
           /\ callSessions' = PipelineSessions(callSid)
  /\ runs' = [runs EXCEPT ![r] = DoneRun]
  /\ UNCHANGED <<others, USER_PHONE_NUMBER, now>>

\* ------------------------------------------------------------- the sweep

\* A sweep that evicts a session as soon as it is as old as the TTL.
StaleAtTTL(session) == now - session.lastActivity >= SESSION_TTL

\* now - session.lastActivity > 30 * 60 * 1000
Stale(session) == now - session.lastActivity > SESSION_TTL

StaleSids == {sid \in DOMAIN callSessions : Stale(callSessions[sid])}

SweepSessions == [sid \in (DOMAIN callSessions) \ StaleSids |-> callSessions[sid]]

\* A sweep that deletes from callSessions alone.
SweepPendingKept == pendingResponses

SweepPending ==
  [sid \in (DOMAIN pendingResponses) \ StaleSids |-> pendingResponses[sid]]

\* The Map deletions of one sweep, in some order of the stale call ids, each
\* with what Map.prototype.delete returns.
RECURSIVE SweepCalls(_)
SweepCalls(sids) ==
  IF sids = {} THEN <<>>
  ELSE LET sid == CHOOSE x \in sids : TRUE
       IN  << Call("callSessions.delete", "", <<sid, "true">>),
              Call("pendingResponses.delete", "",
                   <<sid, IF sid \in DOMAIN pendingResponses
                          THEN "true" ELSE "false">>) >>
           \o SweepCalls(sids \ {sid})

\* The setInterval callback.
Sweep ==
  /\ callSessions' = SweepSessions
  /\ pendingResponses' = SweepPending
  /\ last' = Event("sweep", "", <<>>, SweepCalls(StaleSids))
  /\ UNCHANGED <<others, USER_PHONE_NUMBER, now, runs, delivered>>

\* Time passes.
Tick ==
  /\ now + ClockStep <= MaxNow
  /\ now' = now + ClockStep
  /\ last' = Event("tick", "", <<>>, <<>>)
  /\ UNCHANGED <<others, USER_PHONE_NUMBER, callSessions, pendingResponses, runs,
                 delivered>>

\* ---------------------------------------------------- the reminder daemon

\* Runs of checkReminders started in one behaviour.
MaxChecks == 2
\* The daemon's clock stops here.
MaxClock == 2

\* The reminders a file holds: id, message, datetime.
Reminders ==
  { [id |-> "r1", message |-> "Call the dentist", datetime |-> 1],
    [id |-> "r2", message |-> "Tea & cake", datetime |-> 2] }

ReminderIds == {r.id : r \in Reminders}

\* The elements of an array.
Elems(array) == {array[i] : i \in 1..Len(array)}

\* The arrays readReminders can return: no id twice.
ReminderFiles ==
  {f \in UNION {[1..n -> Reminders] : n \in 0..Cardinality(Reminders)} :
     \A i \in 1..Len(f), j \in 1..Len(f) : f[i].id = f[j].id => i = j}

CheckIds == 1..MaxChecks

\* A run of checkReminders: not started, awaiting sendTelegram, awaiting
\* writeReminders, or returned.  read and attempted are history: the array the
\* run read and the sends it made, each with what sendTelegram returned.
IdleCheck ==
  [pc |-> "idle", now |-> 0, read |-> <<>>, due |-> <<>>, pending |-> <<>>,
   attempted |-> <<>>]

\* new Date(r.datetime) <= now
isDue(r, at) == r.datetime <= at

\* new Date(r.datetime) > now
isPending(r, at) == r.datetime > at

\* A loop that forgets the reminder whose send failed.
failedSendDropped(pending, reminder, ok) == pending

\* if (!sent) pending.push(reminder)
afterSend(pending, reminder, ok) ==
  IF ~ok THEN Append(pending, reminder) ELSE pending

\* The variables of the phone service but the step taken last.
phoneState == <<USER_PHONE_NUMBER, callSessions, pendingResponses, now, runs,
                delivered>>

\* checkReminders from its call to its first sendTelegram, or to its return
\* when nothing is due.
checkRemindersRead(c) ==
  /\ checks[c].pc = "idle"
  /\ \A q \in 1..(c - 1) : checks[q].pc # "idle"
  /\ LET reminders == remindersFile
         due == SelectSeq(reminders, LAMBDA r : isDue(r, clock))
         pending == SelectSeq(reminders, LAMBDA r : isPending(r, clock))
     IN  checks' = [checks EXCEPT ![c] =
           [pc |-> IF reminders = <<>> \/ due = <<>> THEN "done" ELSE "sending",
            now |-> clock, read |-> reminders, due |-> due,
            pending |-> pending, attempted |-> <<>>]]
  /\ last' = Event("readReminders", "", <<>>, <<>>)
  /\ UNCHANGED <<phoneState, TWILIO_PHONE_NUMBER, argument, result,
                 remindersFile, clock, sent, tools, smartCheckin, relay>>

\* One turn of the loop: sendTelegram returns ok (true, or false when the
\* response is not ok or fetch throws).
checkRemindersSend(c, ok) ==
  /\ checks[c].pc = "sending"
  /\ LET i == Len(checks[c].attempted) + 1
         reminder == checks[c].due[i]
     IN  /\ checks' = [checks EXCEPT ![c] =
               [@ EXCEPT
                  !.pending = afterSend(@, reminder, ok),
                  !.attempted = Append(@, [id |-> reminder.id, sent |-> ok]),
                  !.pc = IF i = Len(checks[c].due) THEN "writing"
                         ELSE "sending"]]
         /\ sent' = [sent EXCEPT ![reminder.id] = IF ok THEN @ + 1 ELSE @]
         /\ last' = Event("sendTelegram", reminder.id, <<>>,
                          << Call("fetch", IF ok THEN "ok" ELSE "failed",
                                  <<reminder.message>>) >>)
  /\ UNCHANGED <<phoneState, TWILIO_PHONE_NUMBER, argument, result,
                 remindersFile, clock, tools, smartCheckin, relay>>

\* if (due.length > 0) await writeReminders(pending)
checkRemindersWrite(c) ==
  /\ checks[c].pc = "writing"
  /\ remindersFile' = checks[c].pending
  /\ checks' = [checks EXCEPT ![c].pc = "done"]
  /\ last' = Event("writeReminders", "", <<>>, <<>>)
  /\ UNCHANGED <<phoneState, TWILIO_PHONE_NUMBER, argument, result, clock, sent,
                 tools, smartCheckin, relay>>

\* Time passes for the daemon.
DaemonTick ==
  /\ clock < MaxClock
  /\ clock' = clock + 1
  /\ last' = Event("tick", "", <<>>, <<>>)
  /\ UNCHANGED <<phoneState, TWILIO_PHONE_NUMBER, argument, result,
                 remindersFile, checks, sent, tools, smartCheckin, relay>>

\* ------------------------------------------- the reminder MCP server

\* Tool calls made in one behaviour.
MaxTools == 2

ToolIds == 1..MaxTools

\* A tools/call request: not yet received, awaiting writeReminders, or
\* answered.  reminders is the array it writes, id the reminder it is about,
\* text what it answers.  The client sends a request after the answer to the
\* one before: tool calls do not overlap one another.
IdleTool ==
  [pc |-> "idle", name |-> "", id |-> "", reminders |-> <<>>, text |-> ""]

\* The ids randomUUID has given out.
GivenIds == {tools[t].id : t \in {q \in ToolIds : tools[q].name = "schedule_reminder"}}

\* dt <= new Date()
inThePast(r, at) == r.datetime <= at

\* reminders.findIndex((r) => r.id === id), from 1; 0 when there is none.
findIndex(reminders, id) ==
  IF \E i \in 1..Len(reminders) : reminders[i].id = id
  THEN CHOOSE i \in 1..Len(reminders) :
         /\ reminders[i].id = id
         /\ \A k \in 1..(i - 1) : reminders[k].id # id
  ELSE 0

\* reminders.splice(index, 1)
splice(reminders, index) ==
  [i \in 1..(Len(reminders) - 1) |->
     IF i < index THEN reminders[i] ELSE reminders[i + 1]]

\* The variables a tool call leaves alone.
besideTools ==
  <<phoneState, TWILIO_PHONE_NUMBER, argument, result, clock, checks, sent,
    smartCheckin, relay>>

\* scheduleReminder from its call to the start of writeReminders, or to its
\* return when the datetime is in the past.
scheduleReminderRead(t, r) ==
  /\ tools[t].pc = "idle"
  /\ \A q \in 1..(t - 1) : tools[q].pc = "done"
  /\ r.id \notin GivenIds
  /\ tools' = [tools EXCEPT ![t] =
       IF inThePast(r, clock)
       THEN [pc |-> "done", name |-> "", id |-> "", reminders |-> <<>>,
             text |-> "Error: datetime is in the past"]
       ELSE [pc |-> "writing", name |-> "schedule_reminder", id |-> r.id,
             reminders |-> Append(remindersFile, r), text |-> ""]]
  /\ last' = Event("schedule_reminder", r.id, <<>>, <<>>)
  /\ UNCHANGED <<besideTools, remindersFile>>

\* cancelReminder from its call to the start of writeReminders, or to its
\* return when no reminder has the id.
cancelReminderRead(t, id) ==
  /\ tools[t].pc = "idle"
  /\ \A q \in 1..(t - 1) : tools[q].pc = "done"
  /\ LET reminders == remindersFile
         index == findIndex(reminders, id)
     IN  tools' = [tools EXCEPT ![t] =
           IF index = 0
           THEN [pc |-> "done", name |-> "cancel_reminder", id |-> id,
                 reminders |-> <<>>, text |-> "No reminder found"]
           ELSE [pc |-> "writing", name |-> "cancel_reminder", id |-> id,
                 reminders |-> splice(reminders, index), text |-> ""]]
  /\ last' = Event("cancel_reminder", id, <<>>, <<>>)
  /\ UNCHANGED <<besideTools, remindersFile>>

\* await writeReminders(reminders), and the answer of the tool.
toolWrite(t) ==
  /\ tools[t].pc = "writing"
  /\ remindersFile' = tools[t].reminders
  /\ tools' = [tools EXCEPT ![t] =
       [@ EXCEPT !.pc = "done",
                 !.text = IF tools[t].name = "schedule_reminder"
                          THEN "Reminder scheduled" ELSE "Cancelled reminder"]]
  /\ last' = Event("writeReminders", tools[t].id, <<>>, <<>>)
  /\ UNCHANGED besideTools

\* The daemon before its first run, with a given file, and the server before
\* its first tool call.
DaemonStarts(file) ==
  /\ remindersFile = file
  /\ clock = 0
  /\ checks = [c \in CheckIds |-> IdleCheck]
  /\ sent = [id \in ReminderIds |-> 0]
  /\ tools = [t \in ToolIds |-> IdleTool]

\* ------------------------------------------------- the smart check-in

\* The check-in clock stops here (hours).
MaxHour == 25
\* No run of the script starts once this many check-ins were sent.
MaxCheckins == 4

MAX_CHECKINS_PER_DAY == 2
MIN_HOURS_BETWEEN == 2

\* The hours of a calendar day in USER_TIMEZONE.
HoursPerDay == 24

\* "" as a time or a date: none yet.
Never == -1

\* What loadState returns when STATE_FILE cannot be read or parsed.
DefaultState ==
  [enabled |-> FALSE, lastCheckinTime |-> Never, checkinsToday |-> 0,
   lastCheckinDate |-> Never]

\* STATE_FILE before anything wrote it.
NoFile == [enabled |-> FALSE, lastCheckinTime |-> Never, checkinsToday |-> -1,
           lastCheckinDate |-> Never]

loadState == IF stateFile = NoFile THEN DefaultState ELSE stateFile

\* new Date().toLocaleDateString("en-CA", { timeZone }): the day a time is in.
todayString(at) == at \div HoursPerDay

\* A count that starts afresh with every run.
checkinsTodayForgotten(state, today) == 0

\* state.lastCheckinDate === today ? state.checkinsToday : 0
checkinsTodayOf(state, today) ==
  IF state.lastCheckinDate = today THEN state.checkinsToday ELSE 0

\* canCheckin: the reason it gives, "" when the check-in is allowed.
canCheckin(state, at) ==
  IF ~state.enabled THEN "disabled"
  ELSE IF checkinsTodayOf(state, todayString(at)) >= MAX_CHECKINS_PER_DAY
    THEN "already sent today"
  ELSE IF /\ state.lastCheckinTime # Never
          /\ at - state.lastCheckinTime < MIN_HOURS_BETWEEN
    THEN "last check-in too recent"
  ELSE ""

\* What callClaude answers: a message, a refusal, an error text, nothing.
CheckinReplies == {"Fancy a walk?", "NO_CHECKIN", "Error: timeout", ""}

\* !response || response.trim().startsWith("NO_CHECKIN")
\*           || response.includes("Error:")
declined(response) == response \in {"", "NO_CHECKIN", "Error: timeout"}

NoCheckin == [pc |-> "idle", state |-> DefaultState]

\* The variables the check-in script leaves alone.
besideCheckin ==
  <<phoneState, TWILIO_PHONE_NUMBER, argument, result, daemon, relay, toggle>>

\* main from its start to the first await after canCheckin, or to its return
\* when the check-in is not allowed.
checkinLoad ==
  /\ checkin.pc \in {"idle", "done"}
  /\ Len(checkins) < MaxCheckins
  /\ LET state == loadState
         reason == canCheckin(state, hours)
     IN  /\ checkin' = [pc |-> IF reason = "" THEN "asking" ELSE "done",
                         state |-> state]
         /\ last' = Event("canCheckin", reason, <<>>, <<>>)
  /\ UNCHANGED <<besideCheckin, stateFile, hours, checkins>>

\* callClaude answers.
checkinAsk(response) ==
  /\ checkin.pc = "asking"
  /\ checkin' = [checkin EXCEPT
                   !.pc = IF declined(response) THEN "done" ELSE "sending"]
  /\ last' = Event("callClaude", response, <<>>, <<>>)
  /\ UNCHANGED <<besideCheckin, stateFile, hours, checkins>>

\* The request of sendTelegram reaches Telegram, which accepts it or not (a
\* fetch that throws counts as not).
checkinSend(ok) ==
  /\ checkin.pc = "sending"
  /\ checkin' = [checkin EXCEPT !.pc = IF ok THEN "sent" ELSE "done"]
  /\ checkins' = IF ok THEN Append(checkins, hours) ELSE checkins
  /\ last' = Event("sendTelegram", IF ok THEN "ok" ELSE "failed", <<>>, <<>>)
  /\ UNCHANGED <<besideCheckin, stateFile, hours>>

\* sendTelegram has returned true: the state is brought up to date.
checkinSent ==
  /\ checkin.pc = "sent"
  /\ LET state == checkin.state
         today == todayString(hours)
     IN  checkin' =
           [pc |-> "saving",
            state |-> [enabled |-> state.enabled,
                       lastCheckinTime |-> hours,
                       checkinsToday |-> checkinsTodayOf(state, today) + 1,
                       lastCheckinDate |-> today]]
  /\ last' = Event("sent", "", <<>>, <<>>)
  /\ UNCHANGED <<besideCheckin, stateFile, hours, checkins>>

\* await saveState(state)
checkinSave ==
  /\ checkin.pc = "saving"
  /\ stateFile' = checkin.state
  /\ checkin' = [checkin EXCEPT !.pc = "done"]
  /\ last' = Event("saveState", "", <<>>, <<>>)
  /\ UNCHANGED <<besideCheckin, hours, checkins>>

\* setEnabled, called by the relay's /checkin command while no run of the
\* script is in progress.
setEnabled(enabled) ==
  /\ checkin.pc \in {"idle", "done"}
  /\ stateFile' = [loadState EXCEPT !.enabled = enabled]
  /\ last' = Event("setEnabled", IF enabled THEN "on" ELSE "off", <<>>, <<>>)
  /\ UNCHANGED <<besideCheckin, hours, checkin, checkins>>

\* No call of setEnabled in progress.
NoToggle == [pc |-> "idle", state |-> DefaultState]

\* setEnabled from its call to the start of saveState, while a run of the
\* script may be between two of its awaits: const state = await loadState();
\* state.enabled = enabled.  The bot handles one command at a time.
setEnabledLoad(enabled) ==
  /\ toggle.pc = "idle"
  /\ toggle' = [pc |-> "saving", state |-> [loadState EXCEPT !.enabled = enabled]]
  /\ last' = Event("setEnabled", IF enabled THEN "on" ELSE "off", <<>>, <<>>)
  /\ UNCHANGED <<phoneState, TWILIO_PHONE_NUMBER, argument, result, daemon,
                 relay, stateFile, hours, checkin, checkins>>

\* await saveState(state), and setEnabled returns.
setEnabledSave ==
  /\ toggle.pc = "saving"
  /\ stateFile' = toggle.state
  /\ toggle' = NoToggle
  /\ last' = Event("setEnabled returns",
                   IF toggle.state.enabled THEN "on" ELSE "off", <<>>, <<>>)
  /\ UNCHANGED <<phoneState, TWILIO_PHONE_NUMBER, argument, result, daemon,
                 relay, hours, checkin, checkins>>

\* Time passes for the script.
CheckinTick ==
  /\ hours < MaxHour
  /\ hours' = hours + 1
  /\ last' = Event("tick", "", <<>>, <<>>)
  /\ UNCHANGED <<besideCheckin, stateFile, checkin, checkins>>

\* The script before its first run.
CheckinStarts ==
  /\ stateFile = NoFile
  /\ hours = 0
  /\ checkin = NoCheckin
  /\ checkins = <<>>
  /\ toggle = NoToggle

\* ------------------------------------------------- the relay's lock file

\* The pids of the relay processes that start, and of one that has gone.
Pids == {"101", "102", "103"}
DeadPid == "4242"

\* readFile(LOCK_FILE) rejects: there is no file.
NoLock == "ENOENT"

\* What LOCK_FILE holds when the processes start and nothing holds the lock:
\* no file, an empty file, the pid of a process that has gone, text that is
\* no pid (parseInt gives NaN and process.kill throws).
FreeLocks == {NoLock, "", DeadPid, "not a pid"}

\* A relay process: before acquireLock, awaiting writeFile, after acquireLock
\* (acquired is what it returned), or gone.
Starting == [pc |-> "start", acquired |-> "none"]

\* process.kill(pid, 0) returns: the process exists.
alive(pid) == pid \in Pids /\ instances[pid].pc # "exited"

\* if (existingLock) { ... process.kill(pid, 0); return false }
heldByAnother(existingLock) ==
  existingLock \notin {NoLock, ""} /\ alive(existingLock)

\* The variables the start-up of the relay leaves alone.
besideRelay ==
  <<phoneState, TWILIO_PHONE_NUMBER, argument, result, daemon, smartCheckin>>

\* acquireLock from its call to its return false or to the start of writeFile.
acquireLockRead(pid) ==
  /\ instances[pid].pc = "start"
  /\ LET existingLock == lockFile
     IN  instances' = [instances EXCEPT ![pid] =
           IF heldByAnother(existingLock)
           THEN [pc |-> "returned", acquired |-> "false"]
           ELSE [pc |-> "writing", acquired |-> "none"]]
  /\ last' = Event("readFile", pid, <<>>, <<>>)
  /\ UNCHANGED <<besideRelay, lockFile>>

\* writeFile resolves and acquireLock returns true, or it rejects and the
\* catch returns false.
acquireLockWrite(pid, written) ==
  /\ instances[pid].pc = "writing"
  /\ lockFile' = IF written THEN pid ELSE lockFile
  /\ instances' = [instances EXCEPT ![pid] =
       [pc |-> "returned", acquired |-> IF written THEN "true" ELSE "false"]]
  /\ last' = Event("writeFile", pid, <<>>, <<>>)
  /\ UNCHANGED besideRelay

\* if (!(await acquireLock())) process.exit(1), and the "exit" handler that
\* unlinks LOCK_FILE.
exitWithoutLock(pid) ==
  /\ instances[pid].pc = "returned"
  /\ instances[pid].acquired = "false"
  /\ instances' = [instances EXCEPT ![pid].pc = "exited"]
  /\ lockFile' = NoLock
  /\ last' = Event("exit", pid, <<>>, <<>>)
  /\ UNCHANGED besideRelay

\* The relay processes before acquireLock, with a given lock file.
RelayStarts(content) ==
  /\ lockFile = content
  /\ instances = [pid \in Pids |-> Starting]

\* The other programs do nothing.
ComponentsAtRest == DaemonStarts(<<>>) /\ CheckinStarts /\ RelayStarts(NoLock)

\* ------------------------------------------------------- the specification

Configurations == {"", "+15550001"}

\* process.env.TWILIO_PHONE_NUMBER, when it is set.
OwnNumber == "+15559999"

\* The state the phone service starts in.
PhoneInit ==
  /\ USER_PHONE_NUMBER \in Configurations
  /\ callSessions = EmptyMap
  /\ pendingResponses = EmptyMap
  /\ now = 0
  /\ runs = [r \in RunIds |-> IdleRun]
  /\ last = Event("start", "", <<>>, <<>>)
  /\ delivered = [sid \in CallSids |-> 0]

\* The variables of the phone service.
phone == <<USER_PHONE_NUMBER, callSessions, pendingResponses, now, runs, last,
           delivered>>

Init ==
  /\ PhoneInit
  /\ TWILIO_PHONE_NUMBER = OwnNumber
  /\ argument = <<>>
  /\ result = NoResult
  /\ ComponentsAtRest

Next ==
  \/ \E callSid \in Sids, from \in Callers : handleInbound(callSid, from)
  \/ \E callSid \in Sids, url \in RecordingUrls, rec \in RecordingSids :
       handleRecordingResponse(callSid, url, rec)
  \/ \E callSid \in Sids : handlePoll(callSid)
  \/ \E callSid \in Sids, query \in OutboundMessages :
       handleOutbound(callSid, query)
  \/ \E callSid \in Sids, status \in CallStatuses :
       handleStatus(callSid, status)
  \/ \E r \in RunIds : Pipeline(r)
  \/ Sweep
  \/ Tick

Spec == Init /\ [][Next]_vars

\* Every collaborator call returns or throws.
FairSpec == Spec /\ \A r \in RunIds : WF_vars(Pipeline(r))

\* And the timer keeps firing.
SweepFairSpec == FairSpec /\ WF_vars(Sweep)

\* And the provider follows every redirect it is given: it keeps polling.
PollFairSpec == FairSpec /\ \A callSid \in Sids : WF_vars(handlePoll(callSid))

\* ------------------------------------------------------- two calls at once

\* Every call id of the provider sends events, all within one clock step.
TwoCallNext ==
  \/ \E callSid \in CallSids, from \in Callers : handleInbound(callSid, from)
  \/ \E callSid \in CallSids, url \in RecordingUrls, rec \in RecordingSids :
       handleRecordingResponse(callSid, url, rec)
  \/ \E callSid \in CallSids : handlePoll(callSid)
  \/ \E callSid \in CallSids, query \in OutboundMessages :
       handleOutbound(callSid, query)
  \/ \E callSid \in CallSids, status \in CallStatuses :
       handleStatus(callSid, status)
  \/ \E r \in RunIds : Pipeline(r)

\* With an address configured a call-start is accepted or rejected by its
\* caller.
TwoCallInit == Init /\ USER_PHONE_NUMBER # ""

TwoCallSpec == TwoCallInit /\ [][TwoCallNext]_vars

\* ------------------------------------------- the end-of-call test alone

\* The longest utterance drawn letter by letter.
MaxUtteranceLen == 4

\* Letters of "bye" in both cases, a word character that is no letter of it,
\* a digit, an underscore, a space and a punctuation mark.
UtteranceLetters == {"b", "y", "e", "B", "s", "2", "_", " ", "!"}

\* The utterances spelt out.
SaidByeBang == <<"B","y","e","!">>
SaidHangUpNow ==
  <<"I"," ","n","e","e","d"," ","t","o"," ","h","a","n","g"," ","u","p"," ",
    "n","o","w">>
SaidGoodbyesAreHard ==
  <<"g","o","o","d","b","y","e","s"," ","a","r","e"," ","h","a","r","d">>
SaidThatsAll ==
  <<"T","H","A","T","'","S"," ","A","L","L"," ","f","o","l","k","s">>
SaidEndCalls == <<"e","n","d"," ","c","a","l","l","s">>

\* What the test is applied to: every utterance of at most MaxUtteranceLen
\* letters, and the ones spelt out.
TestUtterances ==
  UNION {[1..n -> UtteranceLetters] : n \in 0..MaxUtteranceLen}
  \cup {SaidByeBang, SaidHangUpNow, SaidGoodbyesAreHard, SaidThatsAll,
        SaidEndCalls}

GoodbyeInit ==
  /\ PhoneInit
  /\ USER_PHONE_NUMBER = ""
  /\ TWILIO_PHONE_NUMBER = OwnNumber
  /\ argument \in TestUtterances
  /\ result = NoResult
  /\ ComponentsAtRest

\* The test of line 460 applied to the utterance.
GoodbyeTest ==
  /\ result = NoResult
  /\ result' = Returned(IF isGoodbye(argument) THEN "true" ELSE "false")
  /\ UNCHANGED <<phone, TWILIO_PHONE_NUMBER, argument, components>>

GoodbyeSpec == GoodbyeInit /\ [][GoodbyeTest]_vars

\* ------------------------------------------------------- makeOutboundCall

\* The message and the "to" of a call of makeOutboundCall ("" is no "to").
CallMessages ==
  { <<"Time for your walk.">>,
    <<"Tea", " ", "&", " ", "cake", "?">>,
    <<"a", "=", "b", "+", "c">>,
    <<"Call me back.">>,
    <<>> }
Destinations == {"", "+15550001", "+15550002", "+15550003"}

\* What twilioClient.calls.create does: resolves with a call that has a sid,
\* or rejects.
CreateOutcomes ==
  {[kind |-> "created", sid |-> sid] : sid \in CallSids}
  \cup {[kind |-> "rejected", sid |-> ""]}

ErrNoTarget == "No target phone number specified"
ErrNoOwnNumber == "TWILIO_PHONE_NUMBER not configured"
ErrProvider == "RestException"

\* `${BASE_URL}/voice/outbound?message=${encodeURIComponent(message)}`
OutboundUrl(message) ==
  <<BASE_URL, "/voice/outbound?message=">> \o encodeURIComponent(message)

StatusUrl == <<BASE_URL, "/voice/status">>

\* A "to" that leaves the configured address out of it.
targetNumberWithoutDefault(to) == to

\* to || USER_PHONE_NUMBER
targetNumber(to) == IF to # "" THEN to ELSE USER_PHONE_NUMBER

\* The request to the provider: to, from, url, statusCallback.
CreateRequest(message, to) ==
  Call("calls.create", targetNumber(to),
       <<TWILIO_PHONE_NUMBER>> \o OutboundUrl(message) \o StatusUrl)

\* One call of makeOutboundCall; the event keeps the sid the provider
\* assigned, if it was asked and assigned one.
makeOutboundCall(message, to, created) ==
  /\ argument' = <<to>> \o message
  /\ IF targetNumber(to) = ""
     THEN /\ result' = Thrown(ErrNoTarget)
          /\ last' = Event("makeOutboundCall", "", <<>>, <<>>)
     ELSE IF TWILIO_PHONE_NUMBER = ""
     THEN /\ result' = Thrown(ErrNoOwnNumber)
          /\ last' = Event("makeOutboundCall", "", <<>>, <<>>)
     ELSE /\ last' = Event("makeOutboundCall", created.sid, <<>>,
                           << CreateRequest(message, to) >>)
          /\ result' = IF created.kind = "created"
                       THEN Returned(created.sid)
                       ELSE Thrown(ErrProvider)
  /\ UNCHANGED <<USER_PHONE_NUMBER, TWILIO_PHONE_NUMBER, callSessions,
                 pendingResponses, now, runs, delivered, components>>

OutboundInit ==
  /\ PhoneInit
  /\ TWILIO_PHONE_NUMBER \in {"", OwnNumber}
  /\ argument = <<>>
  /\ result = NoResult
  /\ ComponentsAtRest

OutboundNext ==
  \E message \in CallMessages, to \in Destinations, created \in CreateOutcomes :
    makeOutboundCall(message, to, created)

OutboundSpec == OutboundInit /\ [][OutboundNext]_vars

\* --------------------------------------------- the reminder daemon alone

DaemonInit ==
  /\ PhoneInit
  /\ USER_PHONE_NUMBER = ""
  /\ TWILIO_PHONE_NUMBER = OwnNumber
  /\ argument = <<>>
  /\ result = NoResult
  /\ \E file \in ReminderFiles : DaemonStarts(file)
  /\ CheckinStarts
  /\ RelayStarts(NoLock)

\* setInterval starts a run whether or not the one before has returned.
DaemonNext ==
  \/ \E c \in CheckIds : checkRemindersRead(c)
  \/ \E c \in CheckIds, ok \in BOOLEAN : checkRemindersSend(c, ok)
  \/ \E c \in CheckIds : checkRemindersWrite(c)
  \/ DaemonTick

DaemonSpec == DaemonInit /\ [][DaemonNext]_vars

\* --------------------------- the daemon and the MCP server on one file

RemindersInit ==
  /\ PhoneInit
  /\ USER_PHONE_NUMBER = ""
  /\ TWILIO_PHONE_NUMBER = OwnNumber
  /\ argument = <<>>
  /\ result = NoResult
  /\ DaemonStarts(<<>>)
  /\ CheckinStarts
  /\ RelayStarts(NoLock)

\* The two processes share nothing but the file: every step of one may come
\* between two steps of the other.
RemindersNext ==
  \/ DaemonNext
  \/ \E t \in ToolIds, r \in Reminders : scheduleReminderRead(t, r)
  \/ \E t \in ToolIds, id \in ReminderIds : cancelReminderRead(t, id)
  \/ \E t \in ToolIds : toolWrite(t)

RemindersSpec == RemindersInit /\ [][RemindersNext]_vars

\* ------------------------------------------- the smart check-in alone

CheckinInit ==
  /\ PhoneInit
  /\ USER_PHONE_NUMBER = ""
  /\ TWILIO_PHONE_NUMBER = OwnNumber
  /\ argument = <<>>
  /\ result = NoResult
  /\ DaemonStarts(<<>>)
  /\ CheckinStarts
  /\ RelayStarts(NoLock)

\* The runs of the script follow one another, and /checkin commands come
\* between them.
CheckinNext ==
  \/ checkinLoad
  \/ \E response \in CheckinReplies : checkinAsk(response)
  \/ \E ok \in BOOLEAN : checkinSend(ok)
  \/ checkinSent
  \/ checkinSave
  \/ \E enabled \in BOOLEAN : setEnabled(enabled)
  \/ CheckinTick

CheckinSpec == CheckinInit /\ [][CheckinNext]_vars

\* ------------------------- /checkin commands while the script is running

\* The script runs (started by its scheduler, or by the relay's import of the
\* module) while the relay handles /checkin on and /checkin off; all of it
\* within the hour.
ToggleNext ==
  \/ checkinLoad
  \/ \E response \in CheckinReplies : checkinAsk(response)
  \/ \E ok \in BOOLEAN : checkinSend(ok)
  \/ checkinSent
  \/ checkinSave
  \/ \E enabled \in BOOLEAN : setEnabledLoad(enabled)
  \/ setEnabledSave

ToggleSpec == CheckinInit /\ [][ToggleNext]_vars

\* ------------------------------------------- two relay processes start

LockInit ==
  /\ PhoneInit
  /\ USER_PHONE_NUMBER = ""
  /\ TWILIO_PHONE_NUMBER = OwnNumber
  /\ argument = <<>>
  /\ result = NoResult
  /\ DaemonStarts(<<>>)
  /\ CheckinStarts
  /\ \E content \in FreeLocks : RelayStarts(content)

LockNext ==
  \/ \E pid \in Pids : acquireLockRead(pid)
  \/ \E pid \in Pids, written \in BOOLEAN : acquireLockWrite(pid, written)
  \/ \E pid \in Pids : exitWithoutLock(pid)

LockSpec == LockInit /\ [][LockNext]_vars

\* ------------------------------------------- the relay's sendResponse alone

\* relay.ts line 328, in characters.
MAX_LENGTH == 4000

\* How far the lengths of the runs of word characters lie from MAX_LENGTH.
MaxSlack == 1

\* The characters trim() removes, of the ones a response is spelt with here.
Whitespace == {" ", "\n"}

\* n word characters.
Block(n) == [i \in 1..n |-> "a"]

\* What stands before and between the runs of word characters.
Breaks == {<<>>, <<" ">>, <<"\n">>, <<"\n", "\n">>}

BlockLengths == {0, 1} \cup ((MAX_LENGTH - MaxSlack)..(MAX_LENGTH + MaxSlack))

\* The response texts: a break, a run of word characters, a break, a run of
\* word characters; the empty text is one of them.
Responses ==
  {lead \o Block(n) \o break \o Block(m) :
     lead \in Breaks, n \in BlockLengths, break \in Breaks, m \in BlockLengths}

\* String.prototype.substring(start, end), indices from 0, end exclusive.
substring(s, start, end) == SubSeq(s, start + 1, end)

\* String.prototype.lastIndexOf(searchString, position): the greatest index
\* not above position at which searchString begins, or -1.
lastIndexOf(s, searchString, position) ==
  LET upper == IF position < Len(s) - Len(searchString)
                 THEN position ELSE Len(s) - Len(searchString)
      found == {i \in 0..upper :
                  substring(s, i, i + Len(searchString)) = searchString}
  IN  IF found = {} THEN -1
      ELSE CHOOSE i \in found : \A j \in found : j <= i

\* String.prototype.trim(): without the whitespace at both ends.
RECURSIVE trimStart(_, _)
trimStart(s, i) ==
  IF i > Len(s) \/ s[i] \notin Whitespace THEN i ELSE trimStart(s, i + 1)

RECURSIVE trimEnd(_, _)
trimEnd(s, i) ==
  IF i < 1 \/ s[i] \notin Whitespace THEN i ELSE trimEnd(s, i - 1)

trim(s) == SubSeq(s, trimStart(s, 1), trimEnd(s, Len(s)))

\* Lines 353-356: where the text is cut.
splitIndex(remaining) ==
  LET paragraph == lastIndexOf(remaining, <<"\n", "\n">>, MAX_LENGTH)
      line == lastIndexOf(remaining, <<"\n">>, MAX_LENGTH)
      space == lastIndexOf(remaining, <<" ">>, MAX_LENGTH)
  IN  IF paragraph # -1 THEN paragraph
      ELSE IF line # -1 THEN line
      ELSE IF space # -1 THEN space
      ELSE MAX_LENGTH

\* Inside the while loop of line 347.
Splitting(remaining, chunks) ==
  [kind |-> "splitting",
   value |-> [remaining |-> remaining, chunks |-> chunks, next |-> 1]]

\* Handing the chunks to sendChunk, the next one being chunks[next]; the
\* function returns after the last one.
Sending(chunks, next) ==
  [kind |-> IF next > Len(chunks) THEN "returns" ELSE "sending",
   value |-> [remaining |-> <<>>, chunks |-> chunks, next |-> next]]

besideResult == <<phone, TWILIO_PHONE_NUMBER, argument, components>>

\* Lines 339-345: a short response is handed to sendChunk as it is, a longer
\* one enters the loop.
sendResponseStart ==
  /\ result = NoResult
  /\ result' = IF Len(argument) <= MAX_LENGTH
                 THEN Sending(<< argument >>, 1)
                 ELSE Splitting(argument, <<>>)
  /\ UNCHANGED besideResult

\* Lines 347-360: the test of the while loop and one turn of its body.
sendResponseTurn ==
  /\ result.kind = "splitting"
  /\ LET remaining == result.value.remaining
         chunks == result.value.chunks
         at == splitIndex(remaining)
     IN  result' =
           IF Len(remaining) = 0 THEN Sending(chunks, 1)
           ELSE IF Len(remaining) <= MAX_LENGTH
             THEN Sending(Append(chunks, remaining), 1)
           ELSE Splitting(trim(substring(remaining, at, Len(remaining))),
                          Append(chunks, substring(remaining, 0, at)))
  /\ UNCHANGED besideResult

\* Lines 330-337 and 362-364: one chunk is handed to ctx.reply; when the
\* reply with Markdown and the plain one both throw, sendResponse rejects and
\* the later chunks are not sent.
sendChunk(ok) ==
  /\ result.kind = "sending"
  /\ result' = IF ok
                 THEN Sending(result.value.chunks, result.value.next + 1)
                 ELSE [result EXCEPT !.kind = "throws",
                                     !.value.next = @ + 1]
  /\ UNCHANGED besideResult

ChunkInit ==
  /\ PhoneInit
  /\ USER_PHONE_NUMBER = ""
  /\ TWILIO_PHONE_NUMBER = OwnNumber
  /\ argument \in Responses
  /\ result = NoResult
  /\ ComponentsAtRest

ChunkNext ==
  \/ sendResponseStart
  \/ sendResponseTurn
  \/ \E ok \in BOOLEAN : sendChunk(ok)

ChunkSpec == ChunkInit /\ [][ChunkNext]_vars

\* Every step of sendResponse that can be taken is taken.
ChunkFairSpec == ChunkSpec /\ WF_vars(ChunkNext)

\* ------------------------------------------------------------- the claims

\* The runs in flight for a call id.
RunsInFlight(callSid) == {r \in RunIds : InFlight(r) /\ runs[r].callSid = callSid}

\* C1: for every call id at most one run of processRecordingAsync is in flight
\* at any instant (a recording-ready event for a call whose turn is still in
\* progress launches no second run).
C1_AtMostOneRunInFlight ==
  \A callSid \in CallSids : Cardinality(RunsInFlight(callSid)) <= 1

\* C2: the string a run wrote into a slot is carried by at most one poll
\* response; a poll response that carries a result leaves the slot empty, and
\* every other poll response is the wait markup.
C2_ConsumedExactlyOnce ==
  \A callSid \in CallSids :
    /\ delivered[callSid] <= 1
    /\ (last.op = "poll" /\ last.callSid = callSid
          /\ last.markup # PollWait(callSid))
         => (delivered[callSid] = 1 /\ callSid \notin DOMAIN pendingResponses)

\* A poll response has carried the result of a run, and the slot is empty.
C2_Witness ==
  /\ last.op = "poll"
  /\ last.markup = sayAndRecord(MsgNoHear, RespondUrl)
  /\ delivered[last.callSid] = 1
  /\ \E r \in RunIds : runs[r].pc = "done"

\* C3: every launched run ends, and when it ends the slot of its call id holds
\* a string (not null), whichever way it ends: fetch failure, no
\* transcription, goodbye, a reply, or a collaborator that throws.
C3_EveryRunPublishes ==
  /\ [][\A r \in RunIds :
          (runs[r].pc = "running" /\ runs'[r].pc = "done")
            => /\ runs[r].callSid \in DOMAIN pendingResponses'
               /\ pendingResponses'[runs[r].callSid] # Null]_vars
  /\ \A r \in RunIds : (runs[r].pc = "running") ~> (runs[r].pc = "done")

\* A run has ended by a collaborator throwing, and the slot holds the fallback.
C3_Witness ==
  /\ last.op = "pipeline"
  /\ last.calls # <<>>
  /\ last.calls[Len(last.calls)].text = <<"throws">>
  /\ pendingResponses[last.callSid] = Str(MsgHiccup)

\* C4: after a status callback with status completed, failed or no-answer for
\* a call id, neither a session nor a pending entry exists for it.
C4_StatusRemovesSessionAndPending ==
  [][\A callSid \in CallSids, status \in CallStatuses :
       (Terminal(status) /\ handleStatus(callSid, status))
         => /\ callSid \notin DOMAIN callSessions'
            /\ callSid \notin DOMAIN pendingResponses']_vars

\* C5: a run writes only into a slot that exists: when the slot of its call id
\* is absent as the run ends, it is still absent afterwards.
C5_LateWriteIsNoOp ==
  [][\A r \in RunIds :
       (runs[r].pc = "running" /\ runs'[r].pc = "done"
          /\ runs[r].callSid \notin DOMAIN pendingResponses)
         => runs[r].callSid \notin DOMAIN pendingResponses']_vars

\* An entry whose call id has no session.
Orphaned(callSid) ==
  callSid \in DOMAIN pendingResponses /\ callSid \notin DOMAIN callSessions

\* C6: every pending entry whose call id has no session is eventually removed.
C6_OrphansEventuallyRemoved ==
  \A callSid \in CallSids :
    Orphaned(callSid) ~> (callSid \notin DOMAIN pendingResponses)

\* C7: a call-start event from an address other than the configured one returns
\* the hangup markup with the rejection phrase and changes nothing: no session,
\* no pending entry, no run, no saveMessage.
C7_UnauthorizedCallerChangesNothing ==
  [][\A callSid \in CallSids, from \in Callers :
       (USER_PHONE_NUMBER # "" /\ from # USER_PHONE_NUMBER
          /\ handleInbound(callSid, from))
         => /\ last'.markup = sayAndHangup(MsgPrivate)
            /\ last'.calls = <<>>
            /\ UNCHANGED <<callSessions, pendingResponses, runs>>]_vars

\* A caller has been rejected.
C7_Witness ==
  /\ USER_PHONE_NUMBER # ""
  /\ last.op = "inbound"
  /\ last.markup = << Say(<<"Sorry, this number is private.">>) >>
  /\ callSessions = EmptyMap

\* C8: the sweep removes every session whose last activity is more than the
\* TTL old together with its pending entry, and a poll for a call id with no
\* session and no entry returns the wait markup and changes nothing, whether
\* or not the call id had a session before.
C8_SweepEvictsStaleSessions ==
  [][/\ last'.op = "sweep"
        => \A callSid \in DOMAIN callSessions :
             (now - callSessions[callSid].lastActivity > SESSION_TTL)
               => /\ callSid \notin DOMAIN callSessions'
                  /\ callSid \notin DOMAIN pendingResponses'
     /\ \A callSid \in CallSids :
          (last'.op = "poll" /\ last'.callSid = callSid
             /\ callSid \notin DOMAIN callSessions
             /\ callSid \notin DOMAIN pendingResponses)
            => /\ last'.markup = PollWait(callSid)
               /\ UNCHANGED <<callSessions, pendingResponses, runs>>]_vars

\* The sweep has evicted a session that had a pending entry.
C8_Witness ==
  /\ last.op = "sweep"
  /\ Call("pendingResponses.delete", "", <<"CA1", "true">>) \in
       {last.calls[i] : i \in 1..Len(last.calls)}
  /\ callSessions = EmptyMap
  /\ pendingResponses = EmptyMap

\* The markup sends the provider back to the poll route.
RedirectsToPoll(markup) ==
  \E i \in 1..Len(markup) :
    markup[i].el = "Redirect" /\ markup[i].body[2] = "/voice/poll?callSid="

\* C9: a poll for a call id with no pending entry, no session and no run in
\* flight returns markup that does not send the provider back to the poll
\* route.
C9_PollOfUnknownCallIsTerminalSafe ==
  (/\ last.op = "poll"
   /\ last.callSid \notin DOMAIN callSessions
   /\ last.callSid \notin DOMAIN pendingResponses
   /\ RunsInFlight(last.callSid) = {})
    => ~RedirectsToPoll(last.markup)

\* The calls of a step.
CallsOf(event) == {event.calls[i] : i \in 1..Len(event.calls)}

\* C10: a run whose transcription is empty publishes the fixed "couldn't
\* understand" string, which carries no goodbye tag, makes no saveMessage and
\* no callClaude call, and the poll that consumes the string returns
\* speak-then-record markup.
C10_EmptyTranscription ==
  [][/\ (last'.op = "pipeline" /\ Call("transcribe", "", <<>>) \in CallsOf(last'))
        => /\ pendingResponses'[last'.callSid] = Str(MsgNoUnderstand)
           /\ MsgNoUnderstand[1] # GoodbyeTag
           /\ \A call \in CallsOf(last') :
                call.fn \notin {"saveMessage", "callClaude"}
     /\ \A callSid \in CallSids :
          (/\ last'.op = "poll" /\ last'.callSid = callSid
           /\ callSid \in DOMAIN pendingResponses
           /\ pendingResponses[callSid] = Str(MsgNoUnderstand))
            => /\ Len(last'.markup) = 3
               /\ last'.markup[1] = Say(escapeXml(MsgNoUnderstand))
               /\ last'.markup[2].el = "Record"]_vars

\* A poll has delivered the "couldn't understand" string with a Record.
C10_Witness ==
  /\ last.op = "poll"
  /\ Len(last.markup) = 3
  /\ last.markup[1].body =
       <<"Sorry, I couldn", "&apos;", "t understand that. Could you repeat?">>
  /\ last.markup[2].el = "Record"

\* The run that ends in this step.
EndingRuns == {r \in RunIds : runs[r].pc = "running" /\ runs'[r].pc = "done"}

\* C11: a run whose transcription matches the end-of-call test saves the
\* farewell turn, asks for the removal of its recording, publishes the
\* goodbye-tagged farewell and makes no callClaude call; the poll that consumes
\* the farewell returns one Say and nothing else, and the Say does not carry
\* the tag.
C11_GoodbyeEndsTheCall ==
  [][/\ \A t \in Utterances :
          (/\ last'.op = "pipeline"
           /\ isGoodbye(t)
           /\ Call("transcribe", "", t) \in CallsOf(last'))
            => /\ pendingResponses'[last'.callSid] = Str(MsgFarewell)
               /\ startsWith(MsgFarewell, GoodbyeTag)
               /\ Call("saveMessage", "assistant",
                       <<"Alright, talk to you later! Bye!">>) \in CallsOf(last')
               /\ \A r \in EndingRuns :
                    Call("recordings.remove", "", runs[r].recordingSid)
                      \in CallsOf(last')
               /\ \A call \in CallsOf(last') : call.fn # "callClaude"
     /\ \A callSid \in CallSids :
          (/\ last'.op = "poll" /\ last'.callSid = callSid
           /\ callSid \in DOMAIN pendingResponses
           /\ pendingResponses[callSid] = Str(MsgFarewell))
            => /\ Len(last'.markup) = 1
               /\ last'.markup[1].el = "Say"
               /\ \A i \in 1..Len(last'.markup[1].body) :
                    last'.markup[1].body[i] # GoodbyeTag]_vars

\* A poll has delivered the farewell of a goodbye run as a lone Say.
C11_Witness ==
  /\ last.op = "poll"
  /\ last.markup = << Say(<<"Alright, talk to you later! Bye!">>) >>
  /\ last.callSid \notin DOMAIN pendingResponses

\* The n characters of s from position i on are delimited: no word character
\* stands directly before them or directly after them.
Delimited(s, i, n) ==
  /\ (i = 1 \/ ~isWordChar(s[i - 1]))
  /\ (i + n > Len(s) \/ ~isWordChar(s[i + n]))

\* s contains one of the phrases, in any case, delimited on both sides.
ContainsDelimitedPhrase(s) ==
  \E p \in GoodbyePhrases, i \in 1..Len(s) :
    /\ i + Len(p) - 1 <= Len(s)
    /\ [k \in 1..Len(p) |-> toLower(s[i + k - 1])] = p
    /\ Delimited(s, i, Len(p))

\* C12: the end-of-call test is true exactly when the utterance contains, in
\* any case and delimited by word boundaries on both sides, one of the five
\* phrases; it is true for "Bye!" and "I need to hang up now" and false for
\* "goodbyes are hard".
C12_GoodbyeTestIsWholeWord ==
  result.kind = "returns"
    => /\ (result.value = "true") <=> ContainsDelimitedPhrase(argument)
       /\ argument \in {SaidByeBang, SaidHangUpNow} => result.value = "true"
       /\ argument = SaidGoodbyesAreHard => result.value = "false"

\* The test has been applied to "goodbyes are hard" and was false.
C12_Witness ==
  /\ argument = <<"g","o","o","d","b","y","e","s"," ","a","r","e"," ",
                  "h","a","r","d">>
  /\ result = Returned("false")

\* C13: while the session of a call id exists its turn count never decreases,
\* whatever event arrives (a repeated call-start or outbound trigger for the
\* same call id included), and an accepted recording-ready event for it adds
\* exactly one.
C13_TurnsNeverDecrease ==
  [][\A callSid \in CallSids :
       (callSid \in DOMAIN callSessions /\ callSid \in DOMAIN callSessions')
         => /\ callSessions'[callSid].turns >= callSessions[callSid].turns
            /\ (/\ last'.op = "respond" /\ last'.callSid = callSid
                /\ last'.markup = thinkingAndPoll(callSid))
                 => callSessions'[callSid].turns
                      = callSessions[callSid].turns + 1]_vars

\* The routes of the webhook events.
EventOps == {"inbound", "respond", "poll", "outbound", "status"}

\* C14: every event for a call id - call start, recording ready, poll,
\* outbound trigger, status callback - leaves the session of that call id, if
\* it has one afterwards, with the time of the event as its last activity; so
\* a sweep that runs right after an event for a call id keeps its session.
C14_EveryEventRefreshesLastActivity ==
  [][\A callSid \in CallSids :
       /\ (/\ last'.op \in EventOps
           /\ last'.callSid = callSid
           /\ callSid \in DOMAIN callSessions')
            => callSessions'[callSid].lastActivity = now'
       /\ (/\ last.op \in EventOps
           /\ last.callSid = callSid
           /\ callSid \in DOMAIN callSessions
           /\ last'.op = "sweep")
            => callSid \in DOMAIN callSessions']_vars

\* C15: no step of a run of processRecordingAsync, its .catch included,
\* creates, changes or deletes a session: callSessions is the same before and
\* after.
C15_PipelineLeavesSessionsAlone ==
  [][(last'.op = "pipeline" \/ EndingRuns # {}) => UNCHANGED callSessions]_vars

\* A run has ended for a call id that has a session with one turn.
C15_Witness ==
  /\ last.op = "pipeline"
  /\ last.callSid \in DOMAIN callSessions
  /\ callSessions[last.callSid].turns = 1
  /\ \E r \in RunIds : runs[r].pc = "done"

\* C16: an event or a run for one call id leaves the session and the pending
\* entry of every other call id as they were, and a poll that delivers a
\* result delivers the one in the slot of its own call id.
C16_CallsDoNotInterfere ==
  [][\A a \in CallSids : \A b \in CallSids \ {a} :
       (last'.op \in EventOps \cup {"pipeline"} /\ last'.callSid = a)
         => /\ (b \in DOMAIN callSessions) = (b \in DOMAIN callSessions')
            /\ b \in DOMAIN callSessions
                 => callSessions'[b] = callSessions[b]
            /\ (b \in DOMAIN pendingResponses)
                 = (b \in DOMAIN pendingResponses')
            /\ b \in DOMAIN pendingResponses
                 => pendingResponses'[b] = pendingResponses[b]
            /\ (last'.op = "poll" /\ last'.markup # PollWait(a))
                 => /\ Ready(a)
                    /\ last'.markup = Deliver(pendingResponses[a].text)]_vars

\* A poll for one call id has delivered its farewell while the slot of the
\* other call id holds a different result and its session is in place.
C16_Witness ==
  /\ last.op = "poll"
  /\ last.callSid = "CA1"
  /\ last.markup = sayAndHangup(<<"Alright, talk to you later! Bye!">>)
  /\ "CA2" \in DOMAIN pendingResponses
  /\ pendingResponses["CA2"] = Str(MsgNoHear)
  /\ "CA2" \in DOMAIN callSessions

\* A call of makeOutboundCall has been made without a destination (no "to" and
\* no configured address) or without an originating number.
Unconfigured ==
  \/ (argument[1] = "" /\ USER_PHONE_NUMBER = "")
  \/ TWILIO_PHONE_NUMBER = ""

\* It threw one of the two configuration errors and asked nothing of the
\* provider.
ConfigurationError ==
  /\ result.kind = "throws"
  /\ result.value \in {ErrNoTarget, ErrNoOwnNumber}
  /\ last.calls = <<>>

\* It made exactly one call-creation request.
OneCreateRequest ==
  /\ Len(last.calls) = 1
  /\ last.calls[1].fn = "calls.create"

C18_OutboundTrigger ==
  [][\A callSid \in CallSids, query \in OutboundMessages :
       (query # <<>> /\ handleOutbound(callSid, query))
         => /\ callSid \in DOMAIN callSessions'
            /\ callSessions'[callSid].turns = 0
            /\ Len(last'.markup) = 3
            /\ last'.markup[1] = Say(escapeXml(query))
            /\ last'.markup[2].el = "Record"
            /\ UNCHANGED <<pendingResponses, runs>>]_vars

\* An outbound trigger has been answered with its message, escaped, while a
\* result is waiting in the slot of its call id.
C18_Witness ==
  /\ last.op = "outbound"
  /\ last.markup[1].body = <<"Tea", " ", "&amp;", " ", "cake?">>
  /\ callSessions[last.callSid].turns = 0
  /\ last.callSid \in DOMAIN pendingResponses
  /\ pendingResponses[last.callSid] # Null

\* C19: a recording-ready event without a recording URL returns the "didn't
\* catch that" hangup markup and changes nothing: the sessions (turn count and
\* last activity), the pending entries and the runs are as before.
C19_NoRecordingUrl ==
  [][\A callSid \in CallSids, rec \in RecordingSids :
       handleRecordingResponse(callSid, <<>>, rec)
         => /\ last'.markup = sayAndHangup(MsgNoCatch)
            /\ Len(last'.markup) = 1
            /\ UNCHANGED <<callSessions, pendingResponses, runs>>]_vars

\* Such an event has been answered for a call that had one turn before and
\* has it still.
C19_Witness ==
  /\ last.op = "respond"
  /\ last.markup =
       << Say(<<"I didn", "&apos;", "t catch that. Talk to you later!">>) >>
  /\ last.callSid \in DOMAIN callSessions
  /\ callSessions[last.callSid].turns = 1

\* C20: a status callback with a status other than completed, failed and
\* no-answer leaves the sessions and the pending entries unchanged, and every
\* status callback returns the plain acknowledgement.
C20_StatusCallback ==
  [][\A callSid \in CallSids, status \in CallStatuses :
       handleStatus(callSid, status)
         => /\ last'.markup = Ack
            /\ status \notin {"completed", "failed", "no-answer"}
                 => UNCHANGED <<callSessions, pendingResponses>>]_vars

\* A status callback has been acknowledged for a call whose session and
\* pending entry are still there.
C20_Witness ==
  /\ last.op = "status"
  /\ last.markup = << [el |-> "text", body |-> <<"OK">>, attr |-> <<>>] >>
  /\ last.callSid \in DOMAIN callSessions
  /\ last.callSid \in DOMAIN pendingResponses

\* A recording-ready event for the call id has just been accepted.
Accepted(callSid) ==
  /\ last.op = "respond"
  /\ last.callSid = callSid
  /\ last.markup = thinkingAndPoll(callSid)

\* A poll for the call id has just returned markup other than the wait markup.
PollDelivered(callSid) ==
  /\ last.op = "poll"
  /\ last.callSid = callSid
  /\ last.markup # PollWait(callSid)

\* The sweep has just torn the call down: it deleted its session and entry.
Evicted(callSid) ==
  /\ last.op = "sweep"
  /\ Call("callSessions.delete", "", <<callSid, "true">>) \in CallsOf(last)

\* C21: when a recording-ready event has been accepted for a call id and the
\* provider keeps polling, a poll for that call id eventually returns
\* speak-then-record or hangup markup, unless the sweep tears the call down
\* first; the markup carries the string in the slot of that call id, which a
\* run launched for that call id published and no poll has carried before.
C21_PollLoopWaitsForCompletion ==
  /\ \A callSid \in CallSids :
       Accepted(callSid) ~> (PollDelivered(callSid) \/ Evicted(callSid))
  /\ [][\A callSid \in CallSids :
          /\ (/\ last'.op = "poll" /\ last'.callSid = callSid
              /\ last'.markup # PollWait(callSid))
               => /\ Ready(callSid)
                  /\ delivered[callSid] = 0
                  /\ last'.markup = Deliver(pendingResponses[callSid].text)
                  /\ last'.markup[1].el = "Say"
                  /\ Len(last'.markup) \in {1, 3}
          /\ (/\ callSid \in DOMAIN pendingResponses'
              /\ pendingResponses'[callSid] # Null
              /\ \/ callSid \notin DOMAIN pendingResponses
                 \/ pendingResponses[callSid] # pendingResponses'[callSid])
               => /\ last'.op = "pipeline"
                  /\ last'.callSid = callSid
                  /\ EndingRuns # {}
                  /\ \A r \in EndingRuns : runs[r].callSid = callSid]_vars

\* A poll has delivered the model's reply of a run launched by an accepted
\* recording-ready event, as speak-then-record markup.
C21_Witness ==
  /\ last.op = "poll"
  /\ last.markup = sayAndRecord(<<"It is sunny today.">>, RespondUrl)
  /\ delivered[last.callSid] = 1
  /\ last.callSid \in DOMAIN callSessions
  /\ callSessions[last.callSid].turns = 1

\* C22: a session leaves callSessions only in a status callback for its call
\* id with status completed, failed or no-answer, or in a sweep that finds its
\* last activity more than the TTL back; a sweep keeps every session whose
\* last activity is at most the TTL back, and no other step deletes a session.
C22_SessionRemovedOnlyByStatusOrSweep ==
  [][/\ \A callSid \in CallSids :
          (callSid \in DOMAIN callSessions /\ callSid \notin DOMAIN callSessions')
            => \/ \E status \in CallStatuses :
                    Terminal(status) /\ handleStatus(callSid, status)
               \/ /\ last'.op = "sweep"
                  /\ now - callSessions[callSid].lastActivity > SESSION_TTL
     /\ last'.op = "sweep"
          => \A callSid \in DOMAIN callSessions :
               (now - callSessions[callSid].lastActivity <= SESSION_TTL)
                 => /\ callSid \in DOMAIN callSessions'
                    /\ callSessions'[callSid] = callSessions[callSid]]_vars

\* A sweep has evicted a session that had no pending entry, more than the TTL after its
\* last activity.
C22_Witness ==
  /\ last.op = "sweep"
  /\ Call("pendingResponses.delete", "", <<"CA1", "false">>) \in CallsOf(last)
  /\ now > SESSION_TTL
  /\ "CA1" \notin DOMAIN callSessions

\* The run that rewrites the file in this step.
WritingChecks ==
  {c \in CheckIds : checks[c].pc = "writing" /\ checks'[c].pc = "done"}

\* C23: a reminder leaves the reminders file only when it was due and a send
\* of it succeeded; the file a run of checkReminders writes holds every
\* reminder it read whose send failed in that run and every reminder it read
\* that was not yet due; a run sends only reminders that are due, and a run
\* that finds a due reminder in the file (one left by a failed send included)
\* sends it before it rewrites the file.
C23_ReminderRemovedOnlyWhenSent ==
  [][/\ \A r \in Reminders :
          (r \in Elems(remindersFile) /\ r \notin Elems(remindersFile'))
            => /\ sent[r.id] > 0
               /\ r.datetime <= clock
               /\ WritingChecks # {}
               /\ \E c \in CheckIds :
                    [id |-> r.id, sent |-> TRUE] \in Elems(checks[c].attempted)
     /\ \A c \in WritingChecks :
          \A r \in Elems(checks[c].read) :
            /\ [id |-> r.id, sent |-> FALSE] \in Elems(checks[c].attempted)
                 => r \in Elems(remindersFile')
            /\ r.datetime > checks[c].now => r \in Elems(remindersFile')
            /\ r.datetime <= checks[c].now
                 => \E ok \in BOOLEAN :
                      [id |-> r.id, sent |-> ok] \in Elems(checks[c].attempted)
     /\ \A r \in Reminders :
          r.datetime > clock
            => /\ sent'[r.id] = 0
               /\ ~(last'.op = "sendTelegram" /\ last'.callSid = r.id)
               /\ r \in Elems(remindersFile) => r \in Elems(remindersFile')
     /\ \A c \in CheckIds :
          (checks[c].pc = "idle" /\ checks'[c].pc # "idle")
            => \A r \in Elems(remindersFile) :
                 r.datetime <= clock
                   => /\ r \in Elems(checks'[c].due)
                      /\ checks'[c].pc = "sending"]_vars

\* The send of a reminder failed in the first run, which left it in the file;
\* the second run sent it and took it out, and kept the reminder that was not
\* yet due.
C23_Witness ==
  /\ [id |-> "r1", sent |-> FALSE] \in Elems(checks[1].attempted)
  /\ checks[1].pc = "done"
  /\ [id |-> "r1", sent |-> TRUE] \in Elems(checks[2].attempted)
  /\ checks[2].pc = "done"
  /\ checks[2].read = checks[1].pending
  /\ Elems(remindersFile) = {r \in Reminders : r.id = "r2"}
  /\ sent["r1"] = 1
  /\ sent["r2"] = 0

\* The rate-limit fields of a state file.
Counters(file) ==
  LET state == IF file = NoFile THEN DefaultState ELSE file
  IN  <<state.lastCheckinTime, state.checkinsToday, state.lastCheckinDate>>

C25_AtMostOneAcquiresLock ==
  \A p \in Pids : \A q \in Pids \ {p} :
    ~(instances[p].acquired = "true" /\ instances[q].acquired = "true")

\* C26: a recording-ready event with a recording URL sets the slot of its call
\* id to null, launches one run and returns the thinking markup in one step,
\* in which no run ends and no collaborator is called: when the response is
\* returned the slot is null and the launched run is still in flight; a run
\* ends, and publishes, only in a later step of its own.
C26_RespondReturnsBeforePipeline ==
  [][/\ \A callSid \in CallSids, url \in RecordingUrls, rec \in RecordingSids :
          (url # <<>> /\ handleRecordingResponse(callSid, url, rec))
            => /\ last'.markup = thinkingAndPoll(callSid)
               /\ last'.calls = <<>>
               /\ callSid \in DOMAIN pendingResponses'
               /\ pendingResponses'[callSid] = Null
               /\ EndingRuns = {}
               /\ \E r \in RunIds :
                    /\ ~Launched(r)
                    /\ runs'[r] = [pc |-> "running", callSid |-> callSid,
                                   recordingSid |-> rec]
                    /\ \A q \in RunIds \ {r} : runs'[q] = runs[q]
     /\ \A r \in EndingRuns :
          /\ last'.op = "pipeline"
          /\ last'.callSid = runs[r].callSid]_vars

\* A recording-ready event has just been answered with the thinking markup:
\* the slot, which held the result of an earlier run, is null again and the
\* run just launched is in flight.
C26_Witness ==
  /\ last.op = "respond"
  /\ last.markup = thinkingAndPoll("CA1")
  /\ pendingResponses["CA1"] = Null
  /\ runs[1].pc = "done"
  /\ runs[2] = [pc |-> "running", callSid |-> "CA1", recordingSid |-> <<"RE1">>]

\* What the provider's XML parser makes of an escaped text: the text spoken.
Spoken(body) ==
  [i \in 1..Len(body) |->
     CASE body[i] = "&amp;" -> "&"
       [] body[i] = "&lt;" -> "<"
       [] body[i] = "&gt;" -> ">"
       [] body[i] = "&quot;" -> "\""
       [] body[i] = "&apos;" -> "'"
       [] OTHER -> body[i]]

\* The markup speaks and ends the call: one Say and nothing after it.
HangsUp(markup) == Len(markup) = 1 /\ markup[1].el = "Say"

\* The markup speaks and then records the caller's next turn.
SpeaksThenRecords(markup) ==
  /\ Len(markup) = 3
  /\ markup[1].el = "Say"
  /\ markup[2].el = "Record"
  /\ markup[2].attr = RespondUrl

\* C27: a poll that finds a string in the slot of its call id deletes the
\* entry; it returns hangup markup exactly when the string opens with the
\* goodbye tag, and then speaks the string without the tag; otherwise it
\* returns speak-then-record markup that speaks exactly the string.
C27_ReadyPollDelivers ==
  [][\A callSid \in CallSids :
       (Ready(callSid) /\ handlePoll(callSid))
         => LET text == pendingResponses[callSid].text
                tagged == text # <<>> /\ text[1] = GoodbyeTag
            IN  /\ callSid \notin DOMAIN pendingResponses'
                /\ HangsUp(last'.markup) <=> tagged
                /\ tagged => Spoken(last'.markup[1].body) = Tail(text)
                /\ ~tagged
                     => /\ SpeaksThenRecords(last'.markup)
                        /\ Spoken(last'.markup[1].body) = text]_vars

\* A poll has delivered the "couldn't hear that" result, apostrophe escaped,
\* with a Record, and the slot is gone.
C27_Witness ==
  /\ last.op = "poll"
  /\ Len(last.markup) = 3
  /\ last.markup[1].body =
       <<"Sorry, I couldn", "&apos;",
         "t hear that properly. Could you say that again?">>
  /\ last.markup[2].el = "Record"
  /\ pendingResponses = EmptyMap

\* C28: a poll for a call id whose slot is absent or null returns a pause
\* followed by a redirect, by POST, to the poll route with the same call id,
\* and leaves pendingResponses and callSessions as they were.
C28_WaitingPollChangesNothing ==
  [][\A callSid \in CallSids :
       (/\ \/ callSid \notin DOMAIN pendingResponses
           \/ pendingResponses[callSid] = Null
        /\ handlePoll(callSid))
         => /\ Len(last'.markup) = 2
            /\ last'.markup[1].el = "Pause"
            /\ last'.markup[2].el = "Redirect"
            /\ last'.markup[2].attr = <<"POST">>
            /\ last'.markup[2].body =
                 <<BASE_URL, "/voice/poll?callSid=", callSid>>
            /\ UNCHANGED <<pendingResponses, callSessions, runs>>]_vars

\* A poll has been told to wait while the slot of its call id is null, its
\* run in flight and its session in place.
C28_Witness ==
  /\ last.op = "poll"
  /\ last.markup[2].body = <<BASE_URL, "/voice/poll?callSid=", "CA1">>
  /\ "CA1" \in DOMAIN pendingResponses
  /\ pendingResponses["CA1"] = Null
  /\ RunsInFlight("CA1") # {}
  /\ "CA1" \in DOMAIN callSessions

\* The calls of a step that write a result into a slot.
Publications(event) ==
  {i \in 1..Len(event.calls) : event.calls[i].fn = "pendingResponses.set"}

\* C29: a run whose audio fetch returns a non-success status publishes the
\* "couldn't hear that" string and does nothing else: after the fetch it
\* makes no transcribe, saveMessage, callClaude or any other call, and it
\* writes one result, the one in the slot when the run has ended.
C29_FetchFailure ==
  [][(/\ last'.op = "pipeline"
      /\ Call("fetch", "", <<"not ok">>) \in CallsOf(last'))
       => /\ pendingResponses'[last'.callSid] = Str(MsgNoHear)
          /\ Cardinality(Publications(last')) = 1
          /\ \A call \in CallsOf(last') :
               call.fn \in {"fetch", "pendingResponses.set"}
          /\ Len(last'.calls) = 2
          /\ last'.calls[2] = Call("pendingResponses.set", "", MsgNoHear)
          /\ EndingRuns # {}]_vars

\* A run has ended after a fetch with a non-success status: two calls, the
\* fetch and the write of the "couldn't hear that" string.
C29_Witness ==
  /\ last.op = "pipeline"
  /\ last.calls = << Call("fetch", "", <<"not ok">>),
                     Call("pendingResponses.set", "", MsgNoHear) >>
  /\ pendingResponses[last.callSid] = Str(MsgNoHear)
  /\ \E r \in RunIds : runs[r].pc = "done"

\* The place of the first call of a function in the calls of a step (0: none).
FirstCall(event, fn, role) ==
  IF \E i \in 1..Len(event.calls) :
       event.calls[i].fn = fn /\ event.calls[i].role = role
  THEN CHOOSE i \in 1..Len(event.calls) :
         /\ event.calls[i].fn = fn /\ event.calls[i].role = role
         /\ \A k \in 1..(i - 1) :
              ~(event.calls[k].fn = fn /\ event.calls[k].role = role)
  ELSE 0

\* C30: a run that calls the model has saved the caller's utterance before it
\* and applies the post-filter after it; when such a run publishes a reply it
\* has made, in this order, the saveMessage of the utterance, callClaude,
\* processMemoryIntents, the saveMessage of the assistant turn, the removal of
\* the recording and the write of the slot, so both saveMessage calls have
\* returned before a poll can see the reply; the text published and saved is
\* what processMemoryIntents returned for the model's answer.
C30_PipelineOrder ==
  [][(last'.op = "pipeline" /\ FirstCall(last', "callClaude", "") # 0)
       => LET calls == last'.calls
              n == Len(calls)
              user == FirstCall(last', "saveMessage", "user")
              model == FirstCall(last', "callClaude", "")
              filter == FirstCall(last', "processMemoryIntents", "")
              assistant == FirstCall(last', "saveMessage", "assistant")
              removal == FirstCall(last', "recordings.remove", "")
              publish == FirstCall(last', "pendingResponses.set", "")
          IN  /\ 0 < user /\ user < model /\ model < filter
              /\ calls[user].text[1] = "[Phone]: "
              /\ publish # 0
                   => /\ filter < assistant /\ assistant < removal
                      /\ removal < publish /\ publish = n
                      /\ Cardinality(Publications(last')) = 1
                      /\ calls[assistant].text = calls[publish].text
                      /\ calls[filter].text = calls[publish].text
                      /\ \E e \in Exchanges :
                           /\ e.reply = calls[model].text
                           /\ e.response = calls[publish].text
                      /\ pendingResponses'[last'.callSid]
                           = Str(calls[publish].text)
              /\ publish = 0 => pendingResponses'[last'.callSid] = Str(MsgHiccup)]_vars

\* A run has published the filtered reply "Noted." after the model answered
\* with a memory tag, and both turns were saved before.
C30_Witness ==
  /\ last.op = "pipeline"
  /\ Call("callClaude", "", <<"Noted.", "[REMEMBER: likes tea]">>) \in CallsOf(last)
  /\ Call("saveMessage", "user", <<"[Phone]: ", "h", "i">>) \in CallsOf(last)
  /\ Call("saveMessage", "assistant", <<"Noted.">>) \in CallsOf(last)
  /\ pendingResponses[last.callSid] = Str(<<"Noted.">>)

\* The fallback the provider speaks when the Record times out.
FallbackSay == Say(<<"I didn", "'", "t hear anything. Talk to you later!">>)

\* Say + Record + fallback Say.
SayRecordSay(markup) ==
  /\ Len(markup) = 3
  /\ markup[1].el = "Say"
  /\ markup[2].el = "Record"
  /\ markup[3] = FallbackSay

\* Pause + Redirect to the poll route of the call id.
PauseThenRedirect(markup, callSid) ==
  /\ Len(markup) = 2
  /\ markup[1].el = "Pause"
  /\ markup[2].el = "Redirect"
  /\ markup[2].body = PollUrl(callSid)

\* A single Say with no further directive.
LoneSay(markup) == Len(markup) = 1 /\ markup[1].el = "Say"

\* C31: every markup response of the phone handlers is Say + Record + fallback
\* Say (call start accepted, outbound trigger, poll delivering a result
\* without the goodbye tag), or Pause + Redirect to the poll route (recording
\* ready accepted, poll not ready), or a single Say (unauthorized caller,
\* missing recording URL, poll delivering a goodbye-tagged result).
C31_ThreeMarkupShapes ==
  [][/\ \A callSid \in CallSids, from \in Callers :
          handleInbound(callSid, from)
            => IF Unauthorized(from) THEN LoneSay(last'.markup)
               ELSE SayRecordSay(last'.markup)
     /\ \A callSid \in CallSids, query \in OutboundMessages :
          handleOutbound(callSid, query) => SayRecordSay(last'.markup)
     /\ \A callSid \in CallSids, url \in RecordingUrls, rec \in RecordingSids :
          handleRecordingResponse(callSid, url, rec)
            => IF url = <<>> THEN LoneSay(last'.markup)
               ELSE PauseThenRedirect(last'.markup, callSid)
     /\ \A callSid \in CallSids :
          handlePoll(callSid)
            => IF ~Ready(callSid) THEN PauseThenRedirect(last'.markup, callSid)
               ELSE IF startsWith(pendingResponses[callSid].text, GoodbyeTag)
                 THEN LoneSay(last'.markup)
               ELSE SayRecordSay(last'.markup)
     /\ last'.op \in {"inbound", "outbound", "respond", "poll"}
          => \/ SayRecordSay(last'.markup)
             \/ PauseThenRedirect(last'.markup, last'.callSid)
             \/ LoneSay(last'.markup)]_vars

\* A poll has delivered the fallback of a run that threw, as Say + Record +
\* fallback Say.
C31_Witness ==
  /\ last.op = "poll"
  /\ last.markup[1] = Say(<<"Sorry, I had a hiccup. What were you saying?">>)
  /\ last.markup[2].el = "Record"
  /\ last.markup[3].body =
       <<"I didn", "'", "t hear anything. Talk to you later!">>
  /\ Len(last.markup) = 3

\* C32: a call-start event that passes the caller test (the address is the
\* configured one, or none is configured) creates a session with turn count 0
\* for its call id, creates no pending entry, launches no run and returns the
\* greeting: the opening prompt, a Record whose action is the recording-ready
\* route, and the fallback Say.
C32_CallStartAccepted ==
  [][\A callSid \in CallSids, from \in Callers :
       (/\ USER_PHONE_NUMBER = "" \/ from = USER_PHONE_NUMBER
        /\ handleInbound(callSid, from))
         => /\ callSid \in DOMAIN callSessions'
            /\ callSessions'[callSid] = [turns |-> 0, lastActivity |-> now]
            /\ UNCHANGED <<pendingResponses, runs>>
            /\ last'.markup[1] = Say(<<"Hey! What can I help with?">>)
            /\ SpeaksThenRecords(last'.markup)
            /\ SayRecordSay(last'.markup)
            /\ last'.calls = << Call("saveMessage", "system",
                                     <<"Phone call started from ", from>>) >>]_vars

\* The configured address has called: there is a session with no turn, no
\* pending entry and no run, and the response is the greeting.
C32_Witness ==
  /\ USER_PHONE_NUMBER = "+15550001"
  /\ last.op = "inbound"
  /\ last.calls[1].text = <<"Phone call started from ", "+15550001">>
  /\ last.markup[2] =
       [el |-> "Record", body |-> <<>>, attr |-> <<BASE_URL, "/voice/respond">>]
  /\ callSessions[last.callSid].turns = 0
  /\ pendingResponses = EmptyMap
  /\ \A r \in RunIds : runs[r].pc = "idle"

\* C33: while the session of a call id exists, a string in the slot of that
\* call id is removed or replaced only by the poll that delivers it: no other
\* step (a later recording-ready event for the same call id included) takes
\* the string out of the slot or puts something else in its place.
C33_ResultNeverDiscarded ==
  [][\A callSid \in CallSids :
       (/\ Ready(callSid)
        /\ callSid \in DOMAIN callSessions
        /\ callSid \in DOMAIN callSessions'
        /\ \/ callSid \notin DOMAIN pendingResponses'
           \/ pendingResponses'[callSid] # pendingResponses[callSid])
         => /\ last'.op = "poll"
            /\ last'.callSid = callSid
            /\ last'.markup = Deliver(pendingResponses[callSid].text)]_vars

\* C34: a run is launched, and a pending entry created, only for a call id
\* that has a session; a recording-ready event for a call id without a
\* session launches no run and creates no entry.
C34_PipelineOnlyForSessions ==
  [][/\ \A r \in RunIds :
          (runs[r].pc = "idle" /\ runs'[r].pc = "running")
            => runs'[r].callSid \in DOMAIN callSessions
     /\ \A callSid \in CallSids :
          (/\ callSid \notin DOMAIN pendingResponses
           /\ callSid \in DOMAIN pendingResponses'
           /\ last'.op = "respond")
            => callSid \in DOMAIN callSessions
     /\ \A callSid \in CallSids, url \in RecordingUrls, rec \in RecordingSids :
          (/\ callSid \notin DOMAIN callSessions
           /\ handleRecordingResponse(callSid, url, rec))
            => UNCHANGED <<runs, pendingResponses>>]_vars

\* The run of this step matched the end-of-call test: it transcribed an
\* utterance the test accepts and did not call the model.
MatchedGoodbye(event) ==
  /\ \E i \in 1..Len(event.calls) :
       event.calls[i].fn = "transcribe" /\ isGoodbye(event.calls[i].text)
  /\ \A i \in 1..Len(event.calls) : event.calls[i].fn # "callClaude"

\* C35: a poll returns hangup markup only for the result of a run that
\* matched the end-of-call test in the caller's utterance: the poll that
\* follows a run which published the model's reply or a fallback string does
\* not hang up, whatever the text.
C35_HangupOnlyOnGoodbyeIntent ==
  [][\A callSid \in CallSids :
       (/\ last.op = "pipeline"
        /\ last.callSid = callSid
        /\ handlePoll(callSid)
        /\ HangsUp(last'.markup))
         => MatchedGoodbye(last)]_vars

\* C36: every run that was given a recording id asks the provider to remove
\* that recording before it ends, whichever way it ends: fetch failure, no
\* transcription, goodbye, a reply, or a collaborator that throws.
C36_RecordingAlwaysRemoved ==
  [][\A r \in EndingRuns :
       runs[r].recordingSid # <<>>
         => Call("recordings.remove", "", runs[r].recordingSid)
              \in CallsOf(last')]_vars

\* The reminders schedule_reminder answered "Reminder scheduled" for.
Scheduled ==
  {tools[t].id : t \in {q \in ToolIds : /\ tools[q].name = "schedule_reminder"
                                        /\ tools[q].pc = "done"}}

\* The reminders cancel_reminder answered "Cancelled reminder" for.
Cancelled ==
  {tools[t].id : t \in {q \in ToolIds : /\ tools[q].name = "cancel_reminder"
                                        /\ tools[q].text = "Cancelled reminder"}}

\* C37: whatever the interleaving of the MCP server's tool calls with the
\* daemon's runs, every reminder schedule_reminder has written is in the file
\* until it has been sent successfully or cancelled.
C37_ScheduledReminderNeverLost ==
  \A id \in Scheduled :
    \/ \E i \in 1..Len(remindersFile) : remindersFile[i].id = id
    \/ sent[id] > 0
    \/ id \in Cancelled

\* C38: every reminder is sent successfully at most once, also when a run of
\* checkReminders starts while an earlier run is still sending or has not yet
\* rewritten the file.
C38_SentAtMostOnce == \A id \in ReminderIds : sent[id] <= 1

\* The state file says enabled.
EnabledInFile(file) == file # NoFile /\ file.enabled

\* C39: once setEnabled(false) has returned, the state file says disabled
\* until setEnabled(true) is called: the file goes from disabled to enabled
\* only in the save of a setEnabled(true), never in the save of a run of the
\* script that loaded its state before the command.
C39_DisabledStaysDisabled ==
  [][(~EnabledInFile(stateFile) /\ EnabledInFile(stateFile'))
       => /\ toggle.pc = "saving"
          /\ toggle.state.enabled
          /\ last'.op = "setEnabled returns"]_vars


\* The chunks handed to sendChunk so far.
SentChunks ==
  IF result.kind \in {"sending", "returns", "throws"}
    THEN SubSeq(result.value.chunks, 1, result.value.next - 1)
    ELSE <<>>

\* C40: sendResponse's chunking loop terminates for every response text, every
\* chunk it sends is non-empty and at most 4000 characters long, and a
\* response of at most 4000 characters is sent as exactly one chunk.
C40_ChunkingTerminatesWithGoodChunks ==
  /\ <>(result.kind \notin {"none", "splitting"})
  /\ [](\A i \in 1..Len(SentChunks) :
          /\ SentChunks[i] # <<>>
          /\ Len(SentChunks[i]) <= MAX_LENGTH)
  /\ []((result.kind = "returns" /\ Len(argument) <= MAX_LENGTH)
          => Len(result.value.chunks) = 1)
====
